---- MODULE Spec2Model ----
(***************************************************************************)
(* Model of the BugStalker debugger core: the Debugger facade              *)
(* (src/src/debugger/mod.rs), the Debugee state (src/src/debugger/debugee/ *)
(* mod.rs) and the collaborators they drive (thread registry, breakpoint   *)
(* records, the trace-event source).                                       *)
(*                                                                         *)
(* One facade operation is one or more steps: the call (guard, prelude,    *)
(* entering the event loop) is one action; every trace event the event     *)
(* loop consumes is one action (Debugee::apply_state followed by the match *)
(* of Debugger::continue_execution, and, when the loop breaks, the rest of *)
(* the calling operation).                                                 *)
(***************************************************************************)
EXTENDS Integers, Sequences, FiniteSets, TLC

----------------------------------------------------------------------------
(* Bounds of the model *)

\* mapping offsets the loader may choose are 1..MaxOffset
MaxOffset == 1
\* thread ids are 1..MaxThreads, the main process id is 1
MaxThreads == 2
\* set_breakpoint is called while the table holds at most MaxBreakpoints records
MaxBreakpoints == 1
\* exit codes of the debugee are 0..MaxExitCode
MaxExitCode == 1
\* at most MaxSignals sent signals are pending at a time
MaxSignals == 2
\* machine words are 0..MaxWord (a scaled-down usize)
MaxWord == 15
\* the bytes of the debugee memory are 0..MaxByte (a scaled-down u8)
MaxByte == 3
\* read_memory is asked for at most MaxRead bytes
MaxRead == 17
\* read_memory starts at an address in 0..MaxReadAddr
MaxReadAddr == 2
\* width in bits the model gives the 64-bit integers (i64, u64, isize, usize);
\* the narrower integers get one bit less, the 128-bit integers one bit more
Int64Bits == 3
\* longest array, vector, deque or tuple of the variable IR
MaxItems == 2

----------------------------------------------------------------------------
(* Option values *)

None == <<>>
Some(x) == <<x>>
unwrap(o) == o[1]

(* PCValue: an address tagged with its kind *)
Global(a) == <<"Global", a>>
Relocated(a) == <<"Relocated", a>>
IsGlobal(k) == k[1] = "Global"
IsRelocated(k) == k[1] = "Relocated"

\* usize: the machine words, arithmetic on them wraps at MaxWord + 1 unless the
\* build checks for overflow, in which case it panics
Words == 0..MaxWord

\* GlobalAddress::relocate with the offset subtracted (faulty variant)
relocate_subtracts(g, offset) == (g - offset) % (MaxWord + 1)
\* GlobalAddress::relocate: self.0 + offset
relocate(g, offset) == (g + offset) % (MaxWord + 1)
\* self.0 + offset overflows: a panic in a build with overflow checks
relocate_overflows(g, offset) == g + offset > MaxWord
\* RelocatedAddress::into_global: self.0 - offset
into_global(r, offset) == (r - offset) % (MaxWord + 1)
\* self.0 - offset overflows: a panic in a build with overflow checks
into_global_overflows(r, offset) == r < offset

(* The debugee program as the debug information describes it: the entry    *)
(* point lies outside every function; one function covers the addresses    *)
(* after it; its line table has two rows for the first statement address,  *)
(* a second statement, and a last row that is not a statement.             *)

\* object.entry()
EntryPoint == 0
\* nix::sys::signal::SIGUSR1, SIGUSR2
SIGUSR1 == 10
SIGUSR2 == 12
FnBegin == EntryPoint + 1

LineTable ==
    <<[address |-> FnBegin,     is_stmt |-> TRUE,  line |-> 10],
      [address |-> FnBegin,     is_stmt |-> TRUE,  line |-> 10],
      [address |-> FnBegin + 1, is_stmt |-> TRUE,  line |-> 11],
      [address |-> FnBegin + 2, is_stmt |-> FALSE, line |-> 11]>>

FnEnd == LineTable[Len(LineTable)].address + 1
GlobalAddrs == EntryPoint..(FnEnd - 1)
Offsets == 1..MaxOffset
RelocatedAddrs == EntryPoint..(FnEnd - 1 + MaxOffset)
PCValues == {Global(a) : a \in GlobalAddrs} \cup {Relocated(a) : a \in RelocatedAddrs}
Tids == 1..MaxThreads
\* exit codes of the debugee
ExitCodes == 0..MaxExitCode
\* the signals the tests send
Signals == {SIGUSR1, SIGUSR2}

\* DebugeeContext::find_place_from_pc: index of the first row at the greatest
\* row address <= pc, None outside the rows
find_place_from_pc(g) ==
    IF g < FnBegin \/ g >= FnEnd THEN None
    ELSE Some(CHOOSE i \in 1..Len(LineTable) :
                /\ LineTable[i].address = g
                /\ \A j \in 1..Len(LineTable) : LineTable[j].address = g => i <= j)

\* DebugeeContext::find_function_by_pc: the function's ranges, None outside
find_function_by_pc(g) ==
    IF g >= FnBegin /\ g < FnEnd THEN Some(<<[begin |-> FnBegin, end |-> FnEnd]>>) ELSE None

----------------------------------------------------------------------------
(* Thread registry (debugee/thread.rs, ThreadCtl): tid -> status *)

TraceeStatus == {"Created", "Stopped", "Running"}

\* ThreadCtl::new(proc): the main process id is registered and in focus
ThreadCtl_new(proc) == [threads |-> (proc :> "Created"), focus |-> proc]

\* ThreadCtl::set_stop_status
set_stop_status(th, tid) ==
    IF tid \in DOMAIN th THEN [th EXCEPT ![tid] = "Stopped"] ELSE th

\* ThreadCtl::register
register(th, tid) == [t \in DOMAIN th \cup {tid} |-> IF t = tid THEN "Created" ELSE th[t]]

\* ThreadCtl::remove (idempotent)
remove(th, tid) == [t \in DOMAIN th \ {tid} |-> th[t]]

\* ThreadCtl::cont_stopped: every Stopped thread is resumed
cont_stopped(th) == [t \in DOMAIN th |-> IF th[t] = "Stopped" THEN "Running" ELSE th[t]]

\* ThreadCtl::interrupt_running: every Running thread is interrupted and stops
interrupt_running(th) == [t \in DOMAIN th |-> IF th[t] = "Running" THEN "Stopped" ELSE th[t]]

\* ThreadCtl::status
status(th, tid) == th[tid]

----------------------------------------------------------------------------
(* Debugee *)

MainPid == 1

\* Debugee::new_non_running
new_non_running ==
    [in_progress  |-> FALSE,
     mapping_addr |-> None,
     threads      |-> ThreadCtl_new(MainPid).threads,
     focus        |-> ThreadCtl_new(MainPid).focus,
     rendezvous   |-> FALSE]

\* Debugee::mapping_offset
mapping_offset(d) == unwrap(d.mapping_addr)

\* Debugee::define_mapping_addr without the filter on the file name
\* (faulty variant)
define_mapping_addr_any_file(maps) ==
    IF maps = {} THEN None
    ELSE Some((CHOOSE m \in maps : \A n \in maps : m.start <= n.start).start)

\* Debugee::define_mapping_addr: the lowest start among the regions of the
\* debugee's own file; maps is a set of [start, own]
define_mapping_addr(maps) ==
    LET own == {m \in maps : m.own}
    IN  IF own = {} THEN None
        ELSE Some((CHOOSE m \in own : \A n \in own : m.start <= n.start).start)

\* DebugeeStart of Debugee::apply_state: in_progress is set first; when
\* define_mapping_addr fails the arm returns the error there
apply_start(d, maps) ==
    IF define_mapping_addr(maps) = None
    THEN [d EXCEPT !.in_progress = TRUE]
    ELSE [d EXCEPT !.in_progress = TRUE,
                   !.mapping_addr = define_mapping_addr(maps),
                   !.threads = set_stop_status(d.threads, MainPid)]

\* the debugee after its first stop with the image mapped at offset
Started(offset) == apply_start(new_non_running, {[start |-> offset, own |-> TRUE]})

\* Breakpoint / OsSignal of Debugee::apply_state without set_thread_to_focus
\* (faulty variant)
apply_stop_keeps_focus(d, tid) ==
    [d EXCEPT !.threads = interrupt_running(set_stop_status(d.threads, tid))]
\* Breakpoint / OsSignal of Debugee::apply_state
apply_stop(d, tid) ==
    [d EXCEPT !.focus = tid,
              !.threads = interrupt_running(set_stop_status(d.threads, tid))]

\* DebugeeExit of Debugee::apply_state leaving the registry alone (faulty variant)
apply_exit_keeps_main(d) == d
\* DebugeeExit of Debugee::apply_state
apply_exit(d) == [d EXCEPT !.threads = remove(d.threads, MainPid)]

\* Debugee::apply_state whose ThreadInterrupt arm resumes the stopped threads
\* whatever the status of the thread (faulty variant)
apply_state_interrupt_resumes(d, e) ==
    CASE e.kind = "ThreadInterrupt" ->
            [d EXCEPT !.threads = cont_stopped(set_stop_status(d.threads, e.tid))]
      [] e.kind = "BeforeNewThread" ->
            [d EXCEPT !.threads = register(set_stop_status(d.threads, e.pid), e.tid)]
      [] e.kind = "Breakpoint" -> apply_stop(d, e.tid)
      [] e.kind = "AtEntryPoint" -> [apply_stop(d, e.tid) EXCEPT !.rendezvous = TRUE]
      [] e.kind = "OsSignal" -> apply_stop(d, e.tid)
      [] OTHER -> d
\* Debugee::apply_state; e = [kind, tid, pid, maps]
apply_state(d, e) ==
    CASE e.kind = "DebugeeStart" -> apply_start(d, e.maps)
      [] e.kind = "DebugeeExit" -> apply_exit(d)
      [] e.kind = "ThreadExit" -> [d EXCEPT !.threads = remove(d.threads, e.tid)]
      [] e.kind = "BeforeNewThread" ->
            [d EXCEPT !.threads = register(set_stop_status(d.threads, e.pid), e.tid)]
      [] e.kind = "ThreadInterrupt" ->
            IF status(d.threads, e.tid) = "Created"
            THEN [d EXCEPT !.threads = cont_stopped(set_stop_status(d.threads, e.tid))]
            ELSE [d EXCEPT !.threads = set_stop_status(d.threads, e.tid)]
      [] e.kind = "BeforeThreadExit" ->
            [d EXCEPT !.threads = remove(cont_stopped(set_stop_status(d.threads, e.tid)), e.tid)]
      [] e.kind = "Breakpoint" -> apply_stop(d, e.tid)
      [] e.kind = "AtEntryPoint" -> [apply_stop(d, e.tid) EXCEPT !.rendezvous = TRUE]
      [] e.kind = "OsSignal" -> apply_stop(d, e.tid)
      [] OTHER -> d

----------------------------------------------------------------------------
(* Breakpoint records (breakpoint.rs) and the table of the facade *)

\* Breakpoint::new: created disabled
Breakpoint_new(addr) == [addr |-> addr, enabled |-> FALSE]
\* Breakpoint::enable
enable(b) == [b EXCEPT !.enabled = TRUE]
\* Breakpoint::disable
disable(b) == [b EXCEPT !.enabled = FALSE]

\* HashMap::insert / HashMap::remove
insert(tbl, k, v) == [x \in DOMAIN tbl \cup {k} |-> IF x = k THEN v ELSE tbl[x]]
remove_key(tbl, k) == [x \in DOMAIN tbl \ {k} |-> tbl[x]]
EmptyTable == [x \in {} |-> Breakpoint_new(Global(EntryPoint))]

----------------------------------------------------------------------------
(* State *)

VARIABLES
    debugee,      \* Debugger.debugee: in_progress, mapping_addr, threads, focus, rendezvous
    breakpoints,  \* Debugger.breakpoints: PCValue -> Breakpoint
    pc,           \* program counter of the thread in focus
    alive,        \* the traced child process exists (trace calls on it succeed)
    op,           \* the facade operation in flight: [name, to_delete, place], "idle" between calls
    last,         \* the latest facade call and its result: [name, res], res "pending" in flight
    saved,        \* the breakpoint table as the latest run or step call found it
    hooks,        \* the EventHook calls made by the facade call in flight (or the latest one)
    sigq,         \* signals sent to the debugee and not yet reported by the tracer, oldest first
    drop,         \* progress of Drop for Debugger: [at, detached, sent]
    calc          \* arguments and result of a function applied on its own: [fn, ...]

vars == <<debugee, breakpoints, pc, alive, op, last, saved, hooks, sigq, drop, calc>>

Idle == [name |-> "idle", to_delete |-> <<>>, place |-> None]

\* the facade is not being destroyed
NotDropped == [at |-> "none", detached |-> {}, sent |-> <<>>]
\* no function is applied on its own
NoCalc == [fn |-> "none"]

\* Debugger::new
InitDebugger ==
    /\ debugee = new_non_running
    /\ breakpoints = insert(EmptyTable, Global(EntryPoint), Breakpoint_new(Global(EntryPoint)))
    /\ pc = EntryPoint
    /\ alive = TRUE
    /\ op = Idle
    /\ last = [name |-> "new", res |-> "ok"]
    /\ saved = EmptyTable
    /\ hooks = <<>>
    /\ sigq = <<>>
    /\ drop = NotDropped

Init ==
    /\ InitDebugger
    /\ calc = NoCalc

\* addresses the program counter of a thread can hold once the image is mapped
CodePCs(d) == {relocate(g, mapping_offset(d)) : g \in GlobalAddrs}

----------------------------------------------------------------------------
(* Facade operations on the breakpoint table *)

\* Debugger::set_breakpoint; [tbl, ok]
set_breakpoint(tbl, d, al, addr) ==
    IF d.in_progress
    THEN IF al THEN [tbl |-> insert(tbl, addr, enable(Breakpoint_new(addr))), ok |-> TRUE]
               ELSE [tbl |-> tbl, ok |-> FALSE]
    ELSE [tbl |-> insert(tbl, addr, Breakpoint_new(addr)), ok |-> TRUE]

\* Debugger::remove_breakpoint; [tbl, ok]
remove_breakpoint(tbl, al, addr) ==
    IF addr \in DOMAIN tbl
    THEN [tbl |-> remove_key(tbl, addr), ok |-> (~tbl[addr].enabled) \/ al]
    ELSE [tbl |-> tbl, ok |-> TRUE]

\* try_for_each(set_breakpoint) over relocated addresses; [tbl, ok]
RECURSIVE set_each(_, _, _, _)
set_each(tbl, d, al, addrs) ==
    IF addrs = <<>> THEN [tbl |-> tbl, ok |-> TRUE]
    ELSE LET r == set_breakpoint(tbl, d, al, Relocated(Head(addrs)))
         IN  IF r.ok THEN set_each(r.tbl, d, al, Tail(addrs)) ELSE r

\* try_for_each(remove_breakpoint) over relocated addresses; [tbl, ok]
RECURSIVE remove_each(_, _, _)
remove_each(tbl, al, addrs) ==
    IF addrs = <<>> THEN [tbl |-> tbl, ok |-> TRUE]
    ELSE LET r == remove_breakpoint(tbl, al, Relocated(Head(addrs)))
         IN  IF r.ok THEN remove_each(r.tbl, al, Tail(addrs)) ELSE r

\* Debugger::step_over_breakpoint: does it issue a single step at pc
steps_over_breakpoint(tbl, at) ==
    Relocated(at) \in DOMAIN tbl /\ tbl[Relocated(at)].enabled

\* Debugger::step_over_breakpoint: the table after disable, step, enable
step_over_breakpoint(tbl, at) ==
    IF steps_over_breakpoint(tbl, at)
    THEN [tbl EXCEPT ![Relocated(at)] = enable(disable(@))]
    ELSE tbl

\* DebugeeStart arm of Debugger::continue_execution without the enabling pass (faulty variant)
on_debugee_start_no_enable(tbl, offset) ==
    LET globals == {k \in DOMAIN tbl : IsGlobal(k)}
        moved(k) == Relocated(relocate(k[2], offset))
        keys == (DOMAIN tbl \ globals) \cup {moved(k) : k \in globals}
    IN  [x \in keys |->
            IF \E k \in globals : moved(k) = x
            THEN [tbl[CHOOSE k \in globals : moved(k) = x] EXCEPT !.addr = x]
            ELSE tbl[x]]
\* DebugeeStart arm of Debugger::continue_execution: rekey the global keys, enable all
on_debugee_start(tbl, offset) ==
    LET globals == {k \in DOMAIN tbl : IsGlobal(k)}
        moved(k) == Relocated(relocate(k[2], offset))
        keys == (DOMAIN tbl \ globals) \cup {moved(k) : k \in globals}
        rekeyed == [x \in keys |->
            IF \E k \in globals : moved(k) = x
            THEN [tbl[CHOOSE k \in globals : moved(k) = x] EXCEPT !.addr = x]
            ELSE tbl[x]]
    IN  [x \in keys |-> enable(rekeyed[x])]

\* the match of Debugger::continue_execution with a break at the entry point (faulty variant)
event_breaks_at_entry(kind) ==
    kind \in {"DebugeeExit", "TrapTrace", "NoSuchProcess", "Breakpoint", "OsSignal",
              "AtEntryPoint"}
\* the match of Debugger::continue_execution without the break after on_signal
\* (faulty variant)
event_breaks_not_on_signal(kind) ==
    kind \in {"DebugeeExit", "TrapTrace", "NoSuchProcess", "Breakpoint"}
\* the match of Debugger::continue_execution: does the event end the loop
event_breaks(kind) ==
    kind \in {"DebugeeExit", "TrapTrace", "NoSuchProcess", "Breakpoint", "OsSignal"}

\* the test of Debugger::step_over without the look-up in the table (faulty variant)
plants_row_unchecked(tbl, cur, line, load_addr) ==
    /\ line.is_stmt
    /\ line.address # cur.address
\* Debugger::step_over: is a transient breakpoint planted for this row
plants_row(tbl, cur, line, load_addr) ==
    /\ line.is_stmt
    /\ line.address # cur.address
    /\ Relocated(load_addr) \notin DOMAIN tbl

\* the statement rows of a range that Debugger::step_over collects, from row i on
RECURSIVE collect_range(_, _, _, _, _)
collect_range(tbl, offset, cur, range, i) ==
    IF i > Len(LineTable) \/ LineTable[i].address >= range.end THEN <<>>
    ELSE LET line == LineTable[i]
             load_addr == relocate(line.address, offset)
         IN  (IF plants_row(tbl, cur, line, load_addr) THEN <<load_addr>> ELSE <<>>)
                \o collect_range(tbl, offset, cur, range, i + 1)

\* Debugger::step_over, lines 431-459: breakpoints_range over all ranges
RECURSIVE collect_ranges(_, _, _, _)
collect_ranges(tbl, offset, cur, ranges) ==
    IF ranges = <<>> THEN <<>>
    ELSE collect_range(tbl, offset, cur, Head(ranges),
                       unwrap(find_place_from_pc(Head(ranges).begin)))
            \o collect_ranges(tbl, offset, cur, Tail(ranges))

----------------------------------------------------------------------------
(* Facade calls *)

\* disable_when_not_stared!
not_started(d) == ~d.in_progress

\* a facade call returns to its caller, hk the hook calls it has made
Return(name, res, tbl, d, npc, hk) ==
    /\ op' = Idle
    /\ last' = [name |-> name, res |-> res]
    /\ saved' = IF op = Idle THEN tbl ELSE saved
    /\ breakpoints' = tbl
    /\ debugee' = d
    /\ pc' = npc
    /\ hooks' = hk
    /\ UNCHANGED <<drop, calc>>

\* a facade call returns to its caller without having called a hook
Finish(name, res, tbl, d, npc) ==
    /\ Return(name, res, tbl, d, npc, <<>>)
    /\ UNCHANGED sigq

\* a facade call is made while no other is in flight, on a facade not yet destroyed
Call == op = Idle /\ drop.at = "none"

\* Debugger::continue_execution up to the first wait: step over the breakpoint
\* at the focus PC, then the tick resumes the stopped threads
EnterLoop(name, tbl, to_delete) ==
    IF ~alive
    THEN /\ Finish(name, "err", tbl, debugee, pc)
         /\ UNCHANGED alive
    ELSE /\ \E npc \in (IF steps_over_breakpoint(tbl, pc) THEN CodePCs(debugee) ELSE {pc}) :
                pc' = npc
         /\ breakpoints' = step_over_breakpoint(tbl, pc)
         /\ debugee' = [debugee EXCEPT !.threads = cont_stopped(@)]
         /\ op' = [name |-> name, to_delete |-> to_delete, place |-> None]
         /\ last' = [name |-> name, res |-> "pending"]
         /\ saved' = breakpoints
         /\ hooks' = <<>>
         /\ UNCHANGED <<alive, sigq, drop, calc>>

\* Debugger::set_breakpoint
SetBreakpoint(addr) ==
    /\ Call
    /\ Cardinality(DOMAIN breakpoints) <= MaxBreakpoints
    /\ LET r == set_breakpoint(breakpoints, debugee, alive, addr)
       IN  Finish("set_breakpoint", IF r.ok THEN "ok" ELSE "err", r.tbl, debugee, pc)
    /\ UNCHANGED alive

\* the PCValue set_breakpoint_at_line and set_breakpoint_at_fn build from a place
place_addr(d, g) ==
    IF d.in_progress THEN Relocated(relocate(g, mapping_offset(d))) ELSE Global(g)

\* Debugger::set_breakpoint_at_line: find_stmt_line gives a statement row or nothing
SetBreakpointAtLine(found) ==
    /\ Call
    /\ Cardinality(DOMAIN breakpoints) <= MaxBreakpoints
    /\ LET r == IF found = None THEN [tbl |-> breakpoints, ok |-> TRUE]
                ELSE set_breakpoint(breakpoints, debugee, alive,
                                    place_addr(debugee, LineTable[unwrap(found)].address))
       IN  Finish("set_breakpoint_at_line", IF r.ok THEN "ok" ELSE "err", r.tbl, debugee, pc)
    /\ UNCHANGED alive

\* Debugger::set_breakpoint_at_fn: the row after the function's first row
SetBreakpointAtFn ==
    /\ Call
    /\ Cardinality(DOMAIN breakpoints) <= MaxBreakpoints
    /\ LET first == find_place_from_pc(FnBegin)
           entry == IF first = None \/ unwrap(first) + 1 > Len(LineTable)
                    THEN None ELSE Some(unwrap(first) + 1)
           r == IF entry = None THEN [tbl |-> breakpoints, ok |-> FALSE]
                ELSE set_breakpoint(breakpoints, debugee, alive,
                                    place_addr(debugee, LineTable[unwrap(entry)].address))
       IN  Finish("set_breakpoint_at_fn", IF r.ok THEN "ok" ELSE "err", r.tbl, debugee, pc)
    /\ UNCHANGED alive

\* Debugger::remove_breakpoint
RemoveBreakpoint(addr) ==
    /\ Call
    /\ LET r == remove_breakpoint(breakpoints, alive, addr)
       IN  Finish("remove_breakpoint", IF r.ok THEN "ok" ELSE "err", r.tbl, debugee, pc)
    /\ UNCHANGED alive

\* Debugger::run_debugee
RunDebugee ==
    /\ Call
    /\ EnterLoop("run_debugee", breakpoints, <<>>)

\* Debugger::continue_debugee
ContinueDebugee ==
    /\ Call
    /\ IF not_started(debugee)
       THEN /\ Finish("continue", "not_started", breakpoints, debugee, pc)
            /\ UNCHANGED alive
       ELSE EnterLoop("continue", breakpoints, <<>>)

\* what uw::return_addr may answer for the thread in focus
ReturnAddrs(d) == {None} \cup {Some(a) : a \in CodePCs(d)}

\* Debugger::step_out planting whether or not a record exists (faulty variant)
step_out_plants_always(tbl, ret) == TRUE
\* Debugger::step_out: is a transient breakpoint planted at the return address
step_out_plants(tbl, ret) == Relocated(ret) \notin DOMAIN tbl

\* Debugger::step_out
StepOut ==
    /\ Call
    /\ IF not_started(debugee)
       THEN /\ Finish("step_out", "not_started", breakpoints, debugee, pc)
            /\ UNCHANGED alive
       ELSE IF ~alive
       THEN /\ Finish("step_out", "err", breakpoints, debugee, pc)
            /\ UNCHANGED alive
       ELSE \E ret \in ReturnAddrs(debugee) :
            IF ret = None
            THEN /\ Finish("step_out", "ok", breakpoints, debugee, pc)
                 /\ UNCHANGED alive
            ELSE IF ~step_out_plants(breakpoints, unwrap(ret))
            THEN EnterLoop("step_out", breakpoints, <<>>)
            ELSE EnterLoop("step_out",
                           set_breakpoint(breakpoints, debugee, alive, Relocated(unwrap(ret))).tbl,
                           <<unwrap(ret)>>)

\* Debugger::step_over
StepOver ==
    /\ Call
    /\ IF not_started(debugee)
       THEN /\ Finish("step_over", "not_started", breakpoints, debugee, pc)
            /\ UNCHANGED alive
       ELSE IF ~alive
       THEN /\ Finish("step_over", "err", breakpoints, debugee, pc)
            /\ UNCHANGED alive
       ELSE IF debugee.mapping_addr = None
       THEN /\ Finish("step_over", "panic", breakpoints, debugee, pc)
            /\ UNCHANGED alive
       ELSE LET offset == mapping_offset(debugee)
                func == find_function_by_pc(into_global(pc, offset))
                current_line == find_place_from_pc(into_global(pc, offset))
            IN  IF func = None \/ current_line = None
                THEN /\ Finish("step_over", "err", breakpoints, debugee, pc)
                     /\ UNCHANGED alive
                ELSE LET breakpoints_range ==
                             collect_ranges(breakpoints, offset,
                                            LineTable[unwrap(current_line)], unwrap(func))
                         planted == set_each(breakpoints, debugee, alive, breakpoints_range).tbl
                     IN  \E ret \in ReturnAddrs(debugee) :
                            IF ret # None /\ Relocated(unwrap(ret)) \notin DOMAIN planted
                            THEN EnterLoop("step_over",
                                    set_breakpoint(planted, debugee, alive,
                                                   Relocated(unwrap(ret))).tbl,
                                    breakpoints_range \o <<unwrap(ret)>>)
                            ELSE EnterLoop("step_over", planted, breakpoints_range)

\* Debugger::single_step_instruction: is a hardware single step issued at pc
single_step_steps(tbl, at) ==
    IF Relocated(at) \in DOMAIN tbl THEN steps_over_breakpoint(tbl, at) ELSE TRUE

\* Debugger::stepi
Stepi ==
    /\ Call
    /\ IF not_started(debugee)
       THEN Finish("step_instruction", "not_started", breakpoints, debugee, pc)
       ELSE IF ~alive
       THEN Finish("step_instruction", "err", breakpoints, debugee, pc)
       ELSE \E npc \in (IF single_step_steps(breakpoints, pc) THEN CodePCs(debugee) ELSE {pc}) :
                Finish("step_instruction", "ok",
                       step_over_breakpoint(breakpoints, pc), debugee, npc)
    /\ UNCHANGED alive

\* Debugger::step_into up to the loop of Debugger::step_in
StepInto ==
    /\ Call
    /\ IF not_started(debugee)
       THEN Finish("step_in", "not_started", breakpoints, debugee, pc)
       ELSE IF ~alive \/ find_place_from_pc(into_global(pc, mapping_offset(debugee))) = None
       THEN Finish("step_in", "err", breakpoints, debugee, pc)
       ELSE /\ op' = [name |-> "step_in", to_delete |-> <<>>,
                      place |-> find_place_from_pc(into_global(pc, mapping_offset(debugee)))]
            /\ last' = [name |-> "step_in", res |-> "pending"]
            /\ hooks' = <<>>
            /\ UNCHANGED <<breakpoints, debugee, pc, saved, sigq, drop, calc>>
    /\ UNCHANGED alive

\* one turn of the while loop of Debugger::step_in
StepInIter ==
    /\ op.name = "step_in"
    /\ LET place == find_place_from_pc(into_global(pc, mapping_offset(debugee)))
       IN  IF place = None
           THEN Finish("step_in", "err", breakpoints, debugee, pc)
           ELSE IF LineTable[unwrap(place)] # LineTable[unwrap(op.place)]
           THEN Finish("step_in", "ok", breakpoints, debugee, pc)
           ELSE /\ \E npc \in (IF single_step_steps(breakpoints, pc)
                               THEN CodePCs(debugee) ELSE {pc}) : pc' = npc
                /\ breakpoints' = step_over_breakpoint(breakpoints, pc)
                /\ UNCHANGED <<op, last, debugee, saved, hooks, sigq, drop, calc>>
    /\ UNCHANGED alive

\* the facade methods that only inspect or poke the stopped debugee
InspectOps ==
    {"thread_state", "backtrace", "read_memory", "write_memory", "get_register",
     "set_register", "read_local_variables", "read_argument", "read_variable"}

\* Debugger::thread_state, backtrace, read_memory, write_memory, get_register_value,
\* set_register_value, read_local_variables, read_arguments, read_variable
Inspect(name) ==
    /\ Call
    /\ IF not_started(debugee)
       THEN Finish(name, "not_started", breakpoints, debugee, pc)
       ELSE Finish(name, IF alive THEN "ok" ELSE "err", breakpoints, debugee, pc)
    /\ UNCHANGED alive

----------------------------------------------------------------------------
(* The event loop: one trace event *)

\* the regions get_process_maps may report
Regions == [start : Offsets, own : BOOLEAN]
\* the regions after another exec: the image may be mapped one step higher
RegionsAgain == [start : 1..(MaxOffset + 1), own : BOOLEAN]

\* the match of Debugger::continue_execution reporting the entry point as a trap
\* (faulty variant)
hooks_of_entry_trap(d, e, at) ==
    CASE e.kind = "DebugeeExit" -> <<[hook |-> "on_exit", code |-> e.code]>>
      [] e.kind \in {"Breakpoint", "AtEntryPoint"} ->
            <<[hook |-> "on_trap", pc |-> at,
               place |-> find_place_from_pc(into_global(at, mapping_offset(d)))]>>
      [] e.kind = "OsSignal" -> <<[hook |-> "on_signal", signo |-> e.signo, code |-> e.code]>>
      [] OTHER -> <<>>
\* the EventHook calls of the match of Debugger::continue_execution on the event e
hooks_of(d, e, at) ==
    CASE e.kind = "DebugeeExit" -> <<[hook |-> "on_exit", code |-> e.code]>>
      [] e.kind = "Breakpoint" ->
            <<[hook |-> "on_trap", pc |-> at,
               place |-> find_place_from_pc(into_global(at, mapping_offset(d)))]>>
      [] e.kind = "OsSignal" -> <<[hook |-> "on_signal", signo |-> e.signo, code |-> e.code]>>
      [] OTHER -> <<>>

\* Debugee::control_flow_tick and the match of Debugger::continue_execution on
\* the event e; at is the PC the event reports, npc the focus PC afterwards
Tick(e, at, npc) ==
    /\ op.name \notin {"idle", "step_in"}
    /\ alive
    /\ LET d1 == apply_state(debugee, e)
           tbl1 == CASE e.kind = "DebugeeStart" ->
                            on_debugee_start(breakpoints, mapping_offset(d1))
                     [] e.kind = "AtEntryPoint" -> step_over_breakpoint(breakpoints, at)
                     [] OTHER -> breakpoints
       IN  IF event_breaks(e.kind)
           THEN LET al == (e.kind # "DebugeeExit")
                    r == remove_each(tbl1, al, op.to_delete)
                IN  /\ alive' = al
                    /\ Return(op.name, IF r.ok THEN "ok" ELSE "err",
                              r.tbl, d1, npc, hooks \o hooks_of(d1, e, at))
           ELSE /\ debugee' = [d1 EXCEPT !.threads = cont_stopped(@)]
                /\ breakpoints' = tbl1
                /\ pc' = npc
                /\ hooks' = hooks \o hooks_of(d1, e, at)
                /\ UNCHANGED <<op, last, alive, saved, drop, calc>>

\* an event the tracer reports while no sent signal is pending
HandleEvent(e, at, npc) ==
    /\ Tick(e, at, npc)
    /\ UNCHANGED sigq

Running(d) == {t \in DOMAIN d.threads : d.threads[t] = "Running"}

\* first stop after exec
EvDebugeeStart ==
    /\ ~debugee.in_progress
    /\ \E maps \in SUBSET Regions :
        /\ define_mapping_addr(maps) # None
        /\ HandleEvent([kind |-> "DebugeeStart", maps |-> maps], pc, pc)

\* first stop after exec while no region maps the debugee's file: apply_state
\* fails, and the tick and the facade call in flight return its error
EvDebugeeStartFails ==
    /\ ~debugee.in_progress
    /\ op.name \notin {"idle", "step_in"}
    /\ alive
    /\ \E maps \in SUBSET Regions :
        /\ define_mapping_addr(maps) = None
        /\ Return(op.name, "err", breakpoints,
                  apply_state(debugee, [kind |-> "DebugeeStart", maps |-> maps]), pc, hooks)
    /\ UNCHANGED <<alive, sigq>>

\* the debugee execs again: another first stop after exec
EvDebugeeStartAgain ==
    /\ debugee.in_progress
    /\ \E maps \in SUBSET RegionsAgain :
        /\ define_mapping_addr(maps) # None
        /\ HandleEvent([kind |-> "DebugeeStart", maps |-> maps], pc, pc)

\* first hit of the breakpoint at the entry point
EvAtEntryPoint ==
    /\ debugee.in_progress
    /\ ~debugee.rendezvous
    /\ LET at == relocate(EntryPoint, mapping_offset(debugee))
       IN  /\ steps_over_breakpoint(breakpoints, at)
           /\ \E tid \in Running(debugee), npc \in CodePCs(debugee) :
                HandleEvent([kind |-> "AtEntryPoint", tid |-> tid], at, npc)

\* a trap at an address that holds an enabled breakpoint
EvBreakpoint ==
    /\ debugee.in_progress
    /\ \E tid \in Running(debugee), at \in CodePCs(debugee) :
        /\ steps_over_breakpoint(breakpoints, at)
        /\ HandleEvent([kind |-> "Breakpoint", tid |-> tid], at, at)

\* a trap at an address that holds an enabled breakpoint while the hook on_trap
\* answers with an error: continue_execution returns it before its break, and
\* so does the call in flight
EvBreakpointHookFails ==
    /\ debugee.in_progress
    /\ op.name \notin {"idle", "step_in"}
    /\ alive
    /\ \E tid \in Running(debugee), at \in CodePCs(debugee) :
        /\ steps_over_breakpoint(breakpoints, at)
        /\ LET e == [kind |-> "Breakpoint", tid |-> tid]
               d1 == apply_state(debugee, e)
           IN  Return(op.name, "err", breakpoints, d1, at, hooks \o hooks_of(d1, e, at))
    /\ UNCHANGED <<alive, sigq>>

\* a signal the debugee raises and the tracer reports at once (si_code 0)
EvOsSignal ==
    /\ debugee.in_progress
    /\ sigq = <<>>
    /\ \E tid \in Running(debugee), at \in CodePCs(debugee), signo \in Signals :
        HandleEvent([kind |-> "OsSignal", tid |-> tid, signo |-> signo, code |-> 0], at, at)

\* signal::kill(debugee_pid, signo) by another process: the signal is pending
SendSignal ==
    /\ alive
    /\ debugee.in_progress
    /\ Len(sigq) < MaxSignals
    /\ \E signo \in Signals : sigq' = Append(sigq, signo)
    /\ UNCHANGED <<debugee, breakpoints, pc, alive, op, last, saved, hooks, drop, calc>>

\* the tracer reports the oldest pending signal (si_code 0)
EvOsSignalPending ==
    /\ debugee.in_progress
    /\ sigq # <<>>
    /\ sigq' = Tail(sigq)
    /\ \E tid \in Running(debugee), at \in CodePCs(debugee) :
        Tick([kind |-> "OsSignal", tid |-> tid, signo |-> Head(sigq), code |-> 0], at, at)

EvDebugeeExit ==
    /\ debugee.in_progress
    /\ \E code \in ExitCodes : HandleEvent([kind |-> "DebugeeExit", code |-> code], pc, pc)

EvTrapTrace ==
    /\ debugee.in_progress
    /\ HandleEvent([kind |-> "TrapTrace"], pc, pc)

EvNoSuchProcess ==
    /\ debugee.in_progress
    /\ \E tid \in Tids : HandleEvent([kind |-> "NoSuchProcess", tid |-> tid], pc, pc)

EvBeforeNewThread ==
    /\ debugee.in_progress
    /\ \E pid \in Running(debugee), tid \in Tids \ DOMAIN debugee.threads :
        HandleEvent([kind |-> "BeforeNewThread", pid |-> pid, tid |-> tid], pc, pc)

EvThreadInterrupt ==
    /\ debugee.in_progress
    /\ \E tid \in DOMAIN debugee.threads :
        HandleEvent([kind |-> "ThreadInterrupt", tid |-> tid], pc, pc)

EvBeforeThreadExit ==
    /\ debugee.in_progress
    /\ \E tid \in DOMAIN debugee.threads :
        HandleEvent([kind |-> "BeforeThreadExit", tid |-> tid], pc, pc)

EvThreadExit ==
    /\ debugee.in_progress
    /\ \E tid \in Tids \ {MainPid} :
        HandleEvent([kind |-> "ThreadExit", tid |-> tid], pc, pc)

----------------------------------------------------------------------------
(* Functions applied on their own: calc holds the arguments, then the result *)

\* the result of an operation that panicked: no word
Panic == 0 - 1

\* the facade is left alone while a function is applied on its own
CalcOnly == UNCHANGED <<debugee, breakpoints, pc, alive, op, last, saved, hooks, sigq, drop>>

\* g.relocate(o), then the result converted back with into_global(o); checks
\* tells whether the build checks arithmetic overflow
CalcRelocate ==
    /\ calc.fn = "relocate" /\ ~calc.done
    /\ LET out == IF calc.checks /\ relocate_overflows(calc.x, calc.o) THEN Panic
                  ELSE relocate(calc.x, calc.o)
           back == IF out = Panic \/ (calc.checks /\ into_global_overflows(out, calc.o))
                   THEN Panic ELSE into_global(out, calc.o)
       IN  calc' = [calc EXCEPT !.done = TRUE, !.out = out, !.back = back]
    /\ CalcOnly

\* r.into_global(o), then the result converted back with relocate(o)
CalcIntoGlobal ==
    /\ calc.fn = "into_global" /\ ~calc.done
    /\ LET out == IF calc.checks /\ into_global_overflows(calc.x, calc.o) THEN Panic
                  ELSE into_global(calc.x, calc.o)
           back == IF out = Panic \/ (calc.checks /\ relocate_overflows(out, calc.o))
                   THEN Panic ELSE relocate(out, calc.o)
       IN  calc' = [calc EXCEPT !.done = TRUE, !.out = out, !.back = back]
    /\ CalcOnly

\* mem::size_of::<c_long>()
single_read_size == 8

\* the byte of the debugee at an address; seed tells the contents apart
mem_byte(seed, a) == (a * (seed + 1) + (a \div 3)) % (MaxByte + 1)

\* the debugee maps the addresses below top: can a word be read at addr
word_mapped(top, addr) == addr + single_read_size <= top

RECURSIVE le_value(_, _)
\* the unsigned value of bytes in native (little-endian) order
le_value(bytes, i) ==
    IF i > Len(bytes) THEN 0
    ELSE bytes[i] + (MaxByte + 1) * le_value(bytes, i + 1)

\* the number of values of a c_long
LongRange == (MaxByte + 1) ^ single_read_size

\* sys::ptrace::read: the c_long at addr
ptrace_read(seed, addr) ==
    LET u == le_value([i \in 1..single_read_size |-> mem_byte(seed, addr + i - 1)], 1)
    IN  IF u >= LongRange \div 2 THEN u - LongRange ELSE u

\* c_long::to_ne_bytes
to_ne_bytes(value) ==
    LET u == value % LongRange
    IN  [i \in 1..single_read_size |-> (u \div ((MaxByte + 1) ^ (i - 1))) % (MaxByte + 1)]

\* Iterator::take that takes the whole word (faulty variant)
take_all(bytes, n) == bytes
\* Iterator::take
take(bytes, n) == IF n >= Len(bytes) THEN bytes ELSE SubSeq(bytes, 1, n)

\* the loop of read_memory_by_pid: None when a word read fails
RECURSIVE read_loop(_, _, _, _, _)
read_loop(seed, top, addr, read_reminder, result) ==
    IF read_reminder > 0
    THEN IF ~word_mapped(top, addr) THEN None
         ELSE read_loop(seed, top, addr + single_read_size,
                        read_reminder - single_read_size,
                        result \o take(to_ne_bytes(ptrace_read(seed, addr)), read_reminder))
    ELSE Some(result)

\* read_memory_by_pid
read_memory_by_pid(seed, top, addr, read_n) == read_loop(seed, top, addr, read_n, <<>>)

\* read_memory_by_pid(pid, addr, read_n) on a debugee that maps the addresses below top
CalcReadMemory ==
    /\ calc.fn = "read_memory" /\ ~calc.done
    /\ calc' = [calc EXCEPT !.done = TRUE,
                            !.out = read_memory_by_pid(calc.seed, calc.top, calc.addr, calc.n)]
    /\ CalcOnly

(* Debugee::apply_state applied on its own: calc holds the debugee and the *)
(* state to apply, then the debugee afterwards                              *)

\* a thread registry over some of the thread ids
Registries == UNION {[S -> {"Created", "Stopped", "Running"}] : S \in (SUBSET Tids) \ {{}}}

\* the debugee states that apply_state takes once the debugee has started,
\* for a registry th
StatesOf(th) ==
    {[kind |-> "DebugeeExit", code |-> 0], [kind |-> "TrapTrace"]}
    \cup {[kind |-> k, tid |-> t] :
            k \in {"ThreadExit", "BeforeThreadExit", "Breakpoint", "AtEntryPoint",
                   "NoSuchProcess"}, t \in Tids}
    \cup {[kind |-> "OsSignal", tid |-> t, signo |-> SIGUSR1, code |-> 0] : t \in Tids}
    \cup {[kind |-> "ThreadInterrupt", tid |-> t] : t \in DOMAIN th}
    \cup {[kind |-> "BeforeNewThread", pid |-> p, tid |-> t] :
            p \in DOMAIN th, t \in Tids \ DOMAIN th}

\* a started debugee with the registry th and the focus on f
Registered(th, f) == [Started(1) EXCEPT !.threads = th, !.focus = f]

\* apply_state(state) on the debugee of calc
CalcApplyState ==
    /\ calc.fn = "apply_state" /\ ~calc.done
    /\ calc' = [calc EXCEPT !.done = TRUE, !.out = apply_state(calc.d, calc.e)]
    /\ CalcOnly

\* the resume of the event loop on the debugee of calc: ThreadCtl::cont_stopped
CalcContStopped ==
    /\ calc.fn = "cont_stopped" /\ ~calc.done
    /\ calc' = [calc EXCEPT !.done = TRUE,
                            !.out = [calc.d EXCEPT !.threads = cont_stopped(@)]]
    /\ CalcOnly

(* The trace calls of the stepping primitives: calc holds the breakpoint    *)
(* table of a started debugee, and the calls the latest primitive made     *)

\* the addresses the primitives are tried at: those that may hold a record
TraceAddrs == EntryPoint..(FnBegin + MaxBreakpoints)

\* the trace call of a primitive that fails, if any: reading the PC of the
\* focus thread, Breakpoint::disable, ControlFlow::thread_step, Breakpoint::enable
TraceFailures == {"none", "pc", "disable", "step", "enable"}

\* Breakpoint::disable / Breakpoint::enable called on the record of addr
BreakpointCall(call, addr) == [call |-> call, addr |-> addr]
\* ControlFlow::thread_step(tid)
ThreadStep(tid) == [call |-> "step", tid |-> tid]

\* Debugger::step_over_breakpoint with the re-enabling before the step (faulty variant)
step_over_breakpoint_calls_enable_first(tbl, at, focus, fails) ==
    LET k == Relocated(at)
        off == BreakpointCall("disable", k)
        on == BreakpointCall("enable", k)
    IN  IF fails = "pc" THEN [tbl |-> tbl, calls |-> <<>>, ok |-> FALSE]
        ELSE IF ~steps_over_breakpoint(tbl, at) THEN [tbl |-> tbl, calls |-> <<>>, ok |-> TRUE]
        ELSE IF fails = "disable" THEN [tbl |-> tbl, calls |-> <<off>>, ok |-> FALSE]
        ELSE IF fails = "enable"
        THEN [tbl |-> [tbl EXCEPT ![k] = disable(@)], calls |-> <<off, on>>, ok |-> FALSE]
        ELSE [tbl |-> [tbl EXCEPT ![k] = enable(disable(@))],
              calls |-> <<off, on, ThreadStep(focus)>>, ok |-> fails # "step"]
\* Debugger::step_over_breakpoint: the table afterwards, the trace calls made
\* in their order, and whether Ok is returned; a failing call leaves the flag
\* of the record as it found it
step_over_breakpoint_calls(tbl, at, focus, fails) ==
    LET k == Relocated(at)
        off == BreakpointCall("disable", k)
        on == BreakpointCall("enable", k)
    IN  IF fails = "pc" THEN [tbl |-> tbl, calls |-> <<>>, ok |-> FALSE]
        ELSE IF ~steps_over_breakpoint(tbl, at) THEN [tbl |-> tbl, calls |-> <<>>, ok |-> TRUE]
        ELSE IF fails = "disable" THEN [tbl |-> tbl, calls |-> <<off>>, ok |-> FALSE]
        ELSE IF fails = "step"
        THEN [tbl |-> [tbl EXCEPT ![k] = disable(@)],
              calls |-> <<off, ThreadStep(focus)>>, ok |-> FALSE]
        ELSE IF fails = "enable"
        THEN [tbl |-> [tbl EXCEPT ![k] = disable(@)],
              calls |-> <<off, ThreadStep(focus), on>>, ok |-> FALSE]
        ELSE [tbl |-> [tbl EXCEPT ![k] = enable(disable(@))],
              calls |-> <<off, ThreadStep(focus), on>>, ok |-> TRUE]

\* Debugger::single_step_instruction: [tbl, calls, ok]
single_step_instruction_calls(tbl, at, focus, fails) ==
    IF fails = "pc" THEN [tbl |-> tbl, calls |-> <<>>, ok |-> FALSE]
    ELSE IF Relocated(at) \in DOMAIN tbl
    THEN step_over_breakpoint_calls(tbl, at, focus, fails)
    ELSE [tbl |-> tbl, calls |-> <<ThreadStep(focus)>>, ok |-> fails # "step"]

\* a primitive has run on the table of calc
Traced(name, at, r) ==
    /\ calc' = [calc EXCEPT !.op = name, !.at = at,
                            !.tbl = r.tbl, !.calls = r.calls, !.ok = r.ok]
    /\ CalcOnly

\* step_over_breakpoint() with the thread in focus stopped at any address
CalcStepOverBreakpoint ==
    /\ calc.fn = "trace"
    /\ \E at \in TraceAddrs, fails \in TraceFailures :
        Traced("step_over_breakpoint", at,
               step_over_breakpoint_calls(calc.tbl, at, calc.focus, fails))

\* single_step_instruction() with the focus thread stopped at any address
CalcSingleStepInstruction ==
    /\ calc.fn = "trace"
    /\ \E at \in TraceAddrs, fails \in TraceFailures :
        Traced("single_step_instruction", at,
               single_step_instruction_calls(calc.tbl, at, calc.focus, fails))

(* Installed breakpoints: calc holds the breakpoint table of a started     *)
(* debugee, the byte each enabled record has saved, and the bytes of the   *)
(* debugee at the code addresses, as st == [tbl, saved_data, mem]          *)

\* the architecture trap opcode on x86-64
TrapOpcode == 204

\* the program byte at a relocated address before any breakpoint is installed
OriginalByte(a) == mem_byte(0, a)

\* Breakpoint::enable on the record of k, after the install algorithm: the
\* byte at the address is recorded, then replaced by the trap opcode
enable_in(st, k) ==
    [tbl |-> [st.tbl EXCEPT ![k] = enable(@)],
     saved_data |-> insert(st.saved_data, k, st.mem[k[2]]),
     mem |-> [st.mem EXCEPT ![k[2]] = TrapOpcode]]

\* Breakpoint::disable on the record of k, after the remove algorithm: the
\* byte at the address is restored to the recorded one
disable_in(st, k) ==
    [tbl |-> [st.tbl EXCEPT ![k] = disable(@)],
     saved_data |-> st.saved_data,
     mem |-> [st.mem EXCEPT ![k[2]] = st.saved_data[k]]]

\* Debugger::set_breakpoint: a new record, enabled when the debugee is in
\* progress, takes the place of any record of the address
set_breakpoint_in(st, d, addr) ==
    LET fresh == [st EXCEPT !.tbl = insert(@, addr, Breakpoint_new(addr)),
                            !.saved_data = remove_key(@, addr)]
    IN  IF d.in_progress THEN enable_in(fresh, addr) ELSE fresh

\* Debugger::remove_breakpoint: the record leaves the table, disabled first
\* when it is enabled
remove_breakpoint_in(st, addr) ==
    IF addr \in DOMAIN st.tbl
    THEN LET off == IF st.tbl[addr].enabled THEN disable_in(st, addr) ELSE st
         IN  [off EXCEPT !.tbl = remove_key(@, addr), !.saved_data = remove_key(@, addr)]
    ELSE st

\* try_for_each(set_breakpoint) over relocated addresses
RECURSIVE set_each_in(_, _, _)
set_each_in(st, d, addrs) ==
    IF addrs = <<>> THEN st
    ELSE set_each_in(set_breakpoint_in(st, d, Relocated(Head(addrs))), d, Tail(addrs))

\* try_for_each(remove_breakpoint) over relocated addresses
RECURSIVE remove_each_in(_, _)
remove_each_in(st, addrs) ==
    IF addrs = <<>> THEN st
    ELSE remove_each_in(remove_breakpoint_in(st, Relocated(Head(addrs))), Tail(addrs))

\* Debugger::step_over_breakpoint at the focus PC: disable, step, enable
step_over_breakpoint_in(st, at) ==
    IF steps_over_breakpoint(st.tbl, at)
    THEN enable_in(disable_in(st, Relocated(at)), Relocated(at))
    ELSE st

\* the DebugeeStart arm of Debugger::continue_execution: the records are
\* rekeyed, then each is enabled
RECURSIVE enable_each_in(_, _)
enable_each_in(st, keys) ==
    IF keys = {} THEN st
    ELSE LET k == CHOOSE x \in keys : TRUE
         IN  enable_each_in(enable_in(st, k), keys \ {k})

on_debugee_start_in(st, offset) ==
    LET rekeyed == on_debugee_start_no_enable(st.tbl, offset)
    IN  enable_each_in([st EXCEPT !.tbl = rekeyed], DOMAIN rekeyed)

\* Debugger::step_out when every trace call succeeds; ret is the answer of
\* uw::return_addr
step_out_in(st, d, at, ret) ==
    IF ret = None THEN st
    ELSE IF ~step_out_plants(st.tbl, unwrap(ret)) THEN step_over_breakpoint_in(st, at)
    ELSE remove_breakpoint_in(
            step_over_breakpoint_in(set_breakpoint_in(st, d, Relocated(unwrap(ret))), at),
            Relocated(unwrap(ret)))

\* Debugger::step_over when every trace call succeeds
step_over_in(st, d, at, ret) ==
    LET offset == mapping_offset(d)
        func == find_function_by_pc(into_global(at, offset))
        current_line == find_place_from_pc(into_global(at, offset))
    IN  IF func = None \/ current_line = None THEN st
        ELSE LET breakpoints_range ==
                     collect_ranges(st.tbl, offset, LineTable[unwrap(current_line)],
                                    unwrap(func))
                 planted == set_each_in(st, d, breakpoints_range)
                 with_ret == ret # None /\ Relocated(unwrap(ret)) \notin DOMAIN planted.tbl
                 all == IF with_ret THEN set_breakpoint_in(planted, d, Relocated(unwrap(ret)))
                        ELSE planted
                 to_delete == IF with_ret THEN breakpoints_range \o <<unwrap(ret)>>
                              ELSE breakpoints_range
             IN  remove_each_in(step_over_breakpoint_in(all, at), to_delete)

\* a facade call has run on the installation of calc and the debugee has
\* stopped at npc
Installed(name, st, npc) ==
    /\ calc' = [calc EXCEPT !.op = name, !.st = st, !.at = npc]
    /\ CalcOnly

\* set_breakpoint(addr) at a code address
CalcSetBreakpoint ==
    /\ calc.fn = "install"
    /\ \E a \in CodePCs(Started(calc.offset)) :
        Installed("set_breakpoint",
                  set_breakpoint_in(calc.st, Started(calc.offset), Relocated(a)), calc.at)

\* remove_breakpoint(addr) at a code address
CalcRemoveBreakpoint ==
    /\ calc.fn = "install"
    /\ \E a \in CodePCs(Started(calc.offset)) :
        Installed("remove_breakpoint", remove_breakpoint_in(calc.st, Relocated(a)), calc.at)

\* step_over() that ends with the debugee stopped at a code address
CalcStepOver ==
    /\ calc.fn = "install"
    /\ LET d == Started(calc.offset)
       IN  \E ret \in ReturnAddrs(d), npc \in CodePCs(d) :
            Installed("step_over", step_over_in(calc.st, d, calc.at, ret), npc)

\* step_out() that ends with the debugee stopped at a code address
CalcStepOut ==
    /\ calc.fn = "install"
    /\ LET d == Started(calc.offset)
       IN  \E ret \in ReturnAddrs(d), npc \in CodePCs(d) :
            Installed("step_out", step_out_in(calc.st, d, calc.at, ret), npc)

(* Variable IR (variable/mod.rs) and literals (variable/select.rs) *)

\* SupportedScalar: the integer variants, by signedness
SignedTypes == {"I8", "I16", "I32", "I64", "I128", "Isize"}

UnsignedTypes == {"U8", "U16", "U32", "U64", "U128", "Usize"}

FloatTypes == {"F32", "F64"}

\* width of an integer variant in the model
IntWidth(ty) ==
    CASE ty \in {"I8", "I16", "I32", "U8", "U16", "U32"} -> Int64Bits - 1
      [] ty \in {"I64", "U64", "Isize", "Usize"} -> Int64Bits
      [] ty \in {"I128", "U128"} -> Int64Bits + 1

\* the values of a scalar variant; floats are numbers that f32 and f64 both
\* hold exactly, chars are one-character strings
ValuesOf(ty) ==
    CASE ty \in SignedTypes -> (0 - 2 ^ (IntWidth(ty) - 1)) .. (2 ^ (IntWidth(ty) - 1) - 1)
      [] ty \in UnsignedTypes -> 0 .. (2 ^ IntWidth(ty) - 1)
      [] ty \in FloatTypes -> 0 .. 1
      [] ty = "Bool" -> BOOLEAN
      [] ty = "Char" -> {"a", "b"}
      [] ty = "Empty" -> {"()"}

\* one scalar: the variant and its value, held in the field of its kind
Scalar(ty, v) ==
    CASE ty \in SignedTypes \cup UnsignedTypes -> [ty |-> ty, int |-> v]
      [] ty \in FloatTypes -> [ty |-> ty, float |-> v]
      [] ty = "Bool" -> [ty |-> ty, bool |-> v]
      [] ty = "Char" -> [ty |-> ty, char |-> v]
      [] ty = "Empty" -> [ty |-> ty]

SupportedScalar ==
    UNION {{Scalar(ty, v) : v \in ValuesOf(ty)} :
               ty \in SignedTypes \cup UnsignedTypes \cup FloatTypes \cup {"Bool", "Char", "Empty"}}

\* the cast `as i64`: the value modulo 2^64, read as a signed integer
as_i64(n) == ((n + 2 ^ (Int64Bits - 1)) % (2 ^ Int64Bits)) - 2 ^ (Int64Bits - 1)

\* the cast `as f64`: every f32 is an f64 of the same value
as_f64(f) == f

\* char::to_string: the string of that one character
to_string(c) == <<c>>

\* Literal and LiteralOrWildcard: the variant and its value, held in the
\* field of its kind; a string is the sequence of its characters
Literal(lit, v) ==
    CASE lit = "Int" -> [lit |-> lit, int |-> v]
      [] lit = "Float" -> [lit |-> lit, float |-> v]
      [] lit = "Bool" -> [lit |-> lit, bool |-> v]
      [] lit = "String" -> [lit |-> lit, string |-> v]
      [] lit = "Address" -> [lit |-> lit, address |-> v]
      [] lit = "Array" -> [lit |-> lit, array |-> v]
      [] lit = "AssocArray" -> [lit |-> lit, assoc |-> v]

\* Literal::EnumVariant: the name of the variant and the optional literal of
\* its value
EnumVariant(variant, variant_value) ==
    [lit |-> "EnumVariant", variant |-> variant, variant_value |-> variant_value]

Wildcard == [lit |-> "Wildcard"]

equal_with_int(lhs, i) == lhs.lit = "Int" /\ lhs.int = i

equal_with_float(lhs, f) == lhs.lit = "Float" /\ lhs.float = f

equal_with_bool(lhs, b) == lhs.lit = "Bool" /\ lhs.bool = b

equal_with_string(lhs, str) == lhs.lit = "String" /\ lhs.string = str

equal_with_address(lhs, ptr) == lhs.lit = "Address" /\ lhs.address = ptr

\* SupportedScalar::equal_with_literal
equal_with_literal(scalar, lhs) ==
    CASE scalar.ty \in SignedTypes \cup UnsignedTypes -> equal_with_int(lhs, as_i64(scalar.int))
      [] scalar.ty = "F32" -> equal_with_float(lhs, as_f64(scalar.float))
      [] scalar.ty = "F64" -> equal_with_float(lhs, scalar.float)
      [] scalar.ty = "Bool" -> equal_with_bool(lhs, scalar.bool)
      [] scalar.ty = "Char" -> equal_with_string(lhs, to_string(scalar.char))
      [] scalar.ty = "Empty" -> FALSE

\* the nodes of the IR: the variant and its value (None when not rendered)
ScalarVariable(scalar) == [ir |-> "Scalar", value |-> scalar]

PointerVariable(ptr) == [ir |-> "Pointer", value |-> [ptr |-> ptr]]

ArrayVariable(items) == [ir |-> "Array", value |-> [items |-> items]]

StructVariable(members) == [ir |-> "Struct", value |-> [members |-> members]]

make_scalar_var_ir(ty, v) == ScalarVariable(Scalar(ty, v))

\* VecVariable: a structure whose first member is the array of the items and
\* whose second member is the capacity
make_vec_var_ir(items) ==
    [structure |-> [members |-> <<ArrayVariable(items), make_scalar_var_ir("Usize", Len(items))>>]]

make_vector_var_ir(items) == [ir |-> "Vector", value |-> make_vec_var_ir(items)]

make_vecdeque_var_ir(items) == [ir |-> "VecDeque", value |-> make_vec_var_ir(items)]

\* Vec::swap_remove(0): the element it returns
swap_remove_first(members) == members[1]

\* a value under a new name; a value built without a name has none
clone_and_rename(var, new_name) == [ir |-> var.ir, value |-> var.value, name |-> new_name]

\* identity().name
name_of(var) == IF "name" \in DOMAIN var THEN Some(var.name) ELSE None

\* strings, as the sequence of their characters
make_str_var_ir(val) == [ir |-> "Str", value |-> [string |-> val]]

make_string_var_ir(val) == [ir |-> "String", value |-> [string |-> val]]

\* sets: the items in the order the set was read
make_hashset_var_ir(items) == [ir |-> "HashSet", value |-> [items |-> items]]

make_btreeset_var_ir(items) == [ir |-> "BTreeSet", value |-> [items |-> items]]

\* enums: the rendered tag of a C-style enum, the selected variant of a
\* tagged enum
CEnumVariable(tag) == [ir |-> "CEnum", value |-> [tag |-> tag]]

RustEnumVariable(variant) == [ir |-> "RustEnum", value |-> [variant |-> variant]]

\* shared ownership and interior mutability: the pointer, the inner value
RcVariable(pointer) == [ir |-> "Rc", value |-> pointer]

ArcVariable(pointer) == [ir |-> "Arc", value |-> pointer]

CellVariable(inner) == [ir |-> "Cell", value |-> [inner |-> inner]]

RefCellVariable(inner) == [ir |-> "RefCell", value |-> [inner |-> inner]]

\* a value that was not rendered
NotRendered(ir) == [ir |-> ir, value |-> None]

\* Vec::swap_remove(idx): the vector without the element at idx, the last
\* element taking its place
swap_remove(vec, idx) ==
    [j \in 1..(Len(vec) - 1) |-> IF j = idx THEN vec[Len(vec)] ELSE vec[j]]

\* position of the first wildcard from i on, 0 when there is none
RECURSIVE position_wildcard(_, _)

position_wildcard(arr_literal, i) ==
    IF i > Len(arr_literal) THEN 0
    ELSE IF arr_literal[i].lit = "Wildcard" THEN i
    ELSE position_wildcard(arr_literal, i + 1)

\* the pointer against a literal (faulty variant: an integer of the same
\* value is accepted too)
match_pointer_as_int(ptr, literal) ==
    equal_with_address(literal, ptr) \/ equal_with_int(literal, ptr)

\* the pointer against a literal: `ptr as usize` is the address itself
match_pointer(ptr, literal) == equal_with_address(literal, ptr)

\* the size test of an associative array (faulty variant: no test)
sizes_differ_never(struct_literal, members) == FALSE

\* the size test of an associative array against the members
sizes_differ(struct_literal, members) == Cardinality(DOMAIN struct_literal) # Len(members)

\* the name test of a tagged enum (faulty variant: no test)
variant_differs_never(value, variant) == FALSE

\* the name test of a tagged enum: the name of the selected variant
variant_differs(value, variant) == name_of(value) # Some(variant)

\* the length test of a positional array (faulty variant: only a literal
\* shorter than the items is refused)
lengths_differ_shorter(arr_literal, items) == Len(arr_literal) < Len(items)

\* the length test of a positional array against the items
lengths_differ(arr_literal, items) == Len(arr_literal) # Len(items)

RECURSIVE match_literal(_, _)

RECURSIVE match_items(_, _, _)

RECURSIVE match_members(_, _, _)

RECURSIVE position_literal(_, _, _)

RECURSIVE match_set(_, _, _)

\* the loop over the items of an array or the members of a tuple, from item i
match_items(items, arr_literal, i) ==
    IF i > Len(items) THEN TRUE
    ELSE IF arr_literal[i].lit = "Wildcard" THEN match_items(items, arr_literal, i + 1)
    ELSE IF ~match_literal(items[i], arr_literal[i]) THEN FALSE
    ELSE match_items(items, arr_literal, i + 1)

\* the loop over the members of a structure against an associative array
match_members(members, struct_literal, i) ==
    IF i > Len(members) THEN TRUE
    ELSE IF name_of(members[i]) = None THEN FALSE
    ELSE IF unwrap(name_of(members[i])) \notin DOMAIN struct_literal THEN FALSE
    ELSE IF struct_literal[unwrap(name_of(members[i]))].lit = "Wildcard"
         THEN match_members(members, struct_literal, i + 1)
    ELSE IF ~match_literal(members[i], struct_literal[unwrap(name_of(members[i]))]) THEN FALSE
    ELSE match_members(members, struct_literal, i + 1)

\* position of the first literal from i on that is no wildcard and matches
\* the item, 0 when there is none
position_literal(item, arr_literal, i) ==
    IF i > Len(arr_literal) THEN 0
    ELSE IF arr_literal[i].lit # "Wildcard" /\ match_literal(item, arr_literal[i]) THEN i
    ELSE position_literal(item, arr_literal, i + 1)

\* the loop over the items of a set: each item takes the first literal that
\* matches it, or else the first wildcard, out of the entries still left
match_set(items, arr_literal, i) ==
    IF i > Len(items) THEN TRUE
    ELSE IF position_literal(items[i], arr_literal, 1) # 0
         THEN match_set(items, swap_remove(arr_literal, position_literal(items[i], arr_literal, 1)),
                        i + 1)
    ELSE IF position_wildcard(arr_literal, 1) # 0
         THEN match_set(items, swap_remove(arr_literal, position_wildcard(arr_literal, 1)), i + 1)
    ELSE FALSE

\* VariableIR::match_literal (a UUID is not among the values of the model)
match_literal(var, literal) ==
    CASE var.ir = "Scalar" /\ var.value # None -> equal_with_literal(var.value, literal)
      [] var.ir = "Pointer" /\ var.value # None -> match_pointer(var.value.ptr, literal)
      [] var.ir = "Array" /\ var.value # None ->
            IF literal.lit # "Array" THEN FALSE
            ELSE IF lengths_differ(literal.array, var.value.items) THEN FALSE
            ELSE match_items(var.value.items, literal.array, 1)
      [] var.ir = "Struct" ->
            IF literal.lit = "Array"
            THEN IF lengths_differ(literal.array, var.value.members) THEN FALSE
                 ELSE match_items(var.value.members, literal.array, 1)
            ELSE IF literal.lit = "AssocArray"
            THEN IF sizes_differ(literal.assoc, var.value.members) THEN FALSE
                 ELSE match_members(var.value.members, literal.assoc, 1)
            ELSE FALSE
      [] var.ir \in {"String", "Str"} /\ var.value # None ->
            equal_with_string(literal, var.value.string)
      [] var.ir \in {"Cell", "RefCell"} /\ var.value # None ->
            match_literal(var.value.inner, literal)
      [] var.ir \in {"Rc", "Arc"} /\ var.value # None /\ var.value.value # None ->
            match_pointer(var.value.value.ptr, literal)
      [] var.ir \in {"Vector", "VecDeque"} /\ var.value # None ->
            match_literal(swap_remove_first(var.value.structure.members), literal)
      [] var.ir \in {"HashSet", "BTreeSet"} /\ var.value # None ->
            IF literal.lit # "Array" THEN FALSE
            ELSE IF lengths_differ(literal.array, var.value.items) THEN FALSE
            ELSE match_set(var.value.items, literal.array, 1)
      [] var.ir = "CEnum" /\ var.value # None ->
            IF literal.lit # "EnumVariant" \/ literal.variant_value # None THEN FALSE
            ELSE var.value.tag = literal.variant
      [] var.ir = "RustEnum" /\ var.value # None ->
            IF literal.lit # "EnumVariant" THEN FALSE
            ELSE IF variant_differs(var.value.variant, literal.variant) THEN FALSE
            ELSE IF literal.variant_value = None THEN TRUE
            ELSE match_literal(var.value.variant, unwrap(literal.variant_value))
      [] OTHER -> FALSE

\* Display for SupportedScalar, read as a literal: the decimal text of an
\* integer is the integer literal of that value, and so on
render_scalar(scalar) ==
    CASE scalar.ty \in SignedTypes \cup UnsignedTypes -> Literal("Int", scalar.int)
      [] scalar.ty \in FloatTypes -> Literal("Float", scalar.float)
      [] scalar.ty = "Bool" -> Literal("Bool", scalar.bool)
      [] scalar.ty = "Char" -> Literal("String", <<scalar.char>>)
      [] scalar.ty = "Empty" -> Literal("String", <<"(", ")">>)

RECURSIVE render(_)

\* the literal of a value rendered field by field
render(var) ==
    CASE var.ir = "Scalar" -> render_scalar(var.value)
      [] var.ir = "Pointer" -> Literal("Address", var.value.ptr)
      [] var.ir = "Array" ->
            Literal("Array", [i \in 1..Len(var.value.items) |-> render(var.value.items[i])])
      [] var.ir = "Struct" ->
            Literal("Array", [i \in 1..Len(var.value.members) |-> render(var.value.members[i])])
      [] var.ir \in {"Vector", "VecDeque"} -> render(var.value.structure.members[1])

\* sequences over S of length 0..n
SeqsUpTo(S, n) == UNION {[1..k -> S] : k \in 0..n}

\* the items and the literal entries the values below are built from
Items == {make_scalar_var_ir("Char", "a"), make_scalar_var_ir("Char", "b"), make_scalar_var_ir("I8", 1)}

Entries == {Wildcard, Literal("String", <<"a">>), Literal("String", <<"b">>), Literal("Int", 1)}

\* arrays, vectors, deques and tuples of scalars, and tuples holding a vector
Sequences ==
    UNION {{ArrayVariable(s), make_vector_var_ir(s), make_vecdeque_var_ir(s), StructVariable(s)} :
               s \in SeqsUpTo(Items, MaxItems)}

Tuples ==
    {StructVariable(<<i, make_vector_var_ir(s)>>) : i \in Items, s \in SeqsUpTo(Items, MaxItems - 1)}

\* positional arrays, one entry longer than the longest value, and positional
\* arrays holding a positional array
ArrayLiterals ==
    {Literal("Array", e) : e \in SeqsUpTo(Entries, MaxItems + 1)}
        \cup {Literal("Array", <<e, Literal("Array", f)>>) :
                  e \in Entries, f \in SeqsUpTo(Entries, MaxItems - 1)}

\* the member names of the structures and the keys of the associative arrays
FieldNames == {"str_field", "vec_field", "bool_field"}

\* members: a scalar or a vector, under a name or under none
Members ==
    LET values == Items \cup {make_vector_var_ir(<<make_scalar_var_ir("I8", 1)>>)}
    IN  values \cup {clone_and_rename(v, n) : v \in values, n \in FieldNames}

\* structures of up to MaxItems members, no name given to two members
Structures ==
    {StructVariable(m) : m \in {q \in SeqsUpTo(Members, MaxItems) :
        \A i, j \in 1..Len(q) : (i # j /\ name_of(q[i]) # None) => name_of(q[i]) # name_of(q[j])}}

\* associative arrays over any set of the keys; an entry is a wildcard, a
\* scalar literal or a positional array
AssocArrays ==
    LET entries == Entries \cup {Literal("Array", <<Literal("Int", 1)>>)}
    IN  {Literal("AssocArray", f) : f \in UNION {[K -> entries] : K \in SUBSET FieldNames}}

\* sets of up to MaxItems items, each item a scalar or an array of two chars,
\* in every order a set may be read in
Pairs ==
    {ArrayVariable(<<make_scalar_var_ir("Char", x), make_scalar_var_ir("Char", y)>>) :
         x \in {"a", "b"}, y \in {"a", "b"}}

Sets ==
    UNION {{make_hashset_var_ir(s), make_btreeset_var_ir(s)} :
               s \in SeqsUpTo(Items \cup Pairs, MaxItems)}

\* positional arrays whose entries are wildcards, scalar literals and
\* positional arrays of two entries
SetLiterals ==
    LET chars == {Wildcard, Literal("String", <<"a">>), Literal("String", <<"b">>)}
        entries == Entries \cup {Literal("Array", <<e, f>>) : e \in chars, f \in chars}
    IN  {Literal("Array", e) : e \in SeqsUpTo(entries, MaxItems)}

\* the variants of the enums, named by one character each
VariantNames == {"A", "B"}

\* the text of a name of one character
text_of(name) == <<name>>

\* C-style enums, and tagged enums whose selected variant is a structure of
\* up to one member, under the name of a variant or under none
Enums ==
    LET payloads == {StructVariable(m) : m \in SeqsUpTo(Items, MaxItems - 1)}
    IN  {CEnumVariable(n) : n \in VariantNames}
            \cup {RustEnumVariable(v) : v \in payloads}
            \cup {RustEnumVariable(clone_and_rename(v, n)) : v \in payloads, n \in VariantNames}
            \cup {NotRendered("CEnum"), NotRendered("RustEnum")}

\* enum-variant literals with and without a value, and the string literals
\* of the same text
EnumLiterals ==
    LET values == {Literal("Int", 1)} \cup {Literal("Array", e) : e \in SeqsUpTo(Entries, MaxItems - 1)}
    IN  {EnumVariant(n, None) : n \in VariantNames}
            \cup {EnumVariant(n, Some(l)) : n \in VariantNames, l \in values}
            \cup {Literal("String", text_of(n)) : n \in VariantNames}

\* raw pointers and shared-ownership wrappers of every address, rendered or not
Pointers ==
    LET pointers == {PointerVariable(p) : p \in ValuesOf("Usize")} \cup {NotRendered("Pointer")}
    IN  pointers \cup {RcVariable(q) : q \in pointers} \cup {ArcVariable(q) : q \in pointers}
            \cup {NotRendered("Rc"), NotRendered("Arc")}

\* address literals and integer literals
PointerLiterals ==
    {Literal("Address", a) : a \in ValuesOf("Usize")} \cup {Literal("Int", n) : n \in ValuesOf("I64")}

\* the integer scalars of every width and signedness, and the integer
\* literals (an integer literal holds an i64)
IntScalars ==
    {ScalarVariable(sc) : sc \in {x \in SupportedScalar : x.ty \in SignedTypes \cup UnsignedTypes}}

IntLiterals == {Literal("Int", n) : n \in ValuesOf("I64")}

\* v.match_literal(l)
CalcMatchLiteral ==
    /\ calc.fn = "match_literal" /\ ~calc.done
    /\ calc' = [calc EXCEPT !.done = TRUE, !.out = match_literal(calc.v, calc.l)]
    /\ CalcOnly

\* v rendered field by field, and v matched with that literal
CalcMatchRendered ==
    /\ calc.fn = "render" /\ ~calc.done
    /\ calc' = [calc EXCEPT !.done = TRUE, !.l = render(calc.v),
                            !.out = match_literal(calc.v, render(calc.v))]
    /\ CalcOnly

----------------------------------------------------------------------------
(* VariableParser: bytes decoded against the type graph. The graph here    *)
(* holds three scalar types, one of them zero-sized, addressed by their    *)
(* position                                                                *)

TypeGraph == <<[name |-> "u8", byte_size |-> 1], [name |-> "u16", byte_size |-> 2],
               [name |-> "zst", byte_size |-> 0]>>
TypeIds == DOMAIN TypeGraph

\* StructureMember::value: the bytes of the member inside the bytes of its
\* parent, None when they are not all there
member_value(member, parent) ==
    LET size == TypeGraph[unwrap(member.type_ref)].byte_size
    IN  IF member.offset + size <= Len(parent)
        THEN Some(SubSeq(parent, member.offset + 1, member.offset + size))
        ELSE None

\* VariableParser::parse_inner on a scalar type: a node with the name, the
\* type name and the decoded value, None when there are no bytes
parse_inner(name, value, type_id) ==
    [ir |-> "Scalar", name |-> name, type_name |-> TypeGraph[type_id].name,
     value |-> IF value = None THEN None ELSE Some(le_value(unwrap(value), 1))]

\* VariableParser::parse_struct_member
parse_struct_member(member, parent_value) ==
    IF member.type_ref = None THEN None
    ELSE Some(parse_inner(member.name,
                          IF parent_value = None THEN None
                          ELSE member_value(member, unwrap(parent_value)),
                          unwrap(member.type_ref)))

\* VariableParser::parse_struct_variable: filter_map of parse_struct_member
\* over the members, collected
RECURSIVE parse_struct_variable(_, _)
parse_struct_variable(value, members) ==
    IF members = <<>> THEN <<>>
    ELSE LET child == parse_struct_member(Head(members), value)
         IN  (IF child = None THEN <<>> ELSE <<unwrap(child)>>)
                 \o parse_struct_variable(value, Tail(members))

\* the structure of calc decoded
CalcParseStruct ==
    /\ calc.fn = "parse_struct_variable" /\ ~calc.done
    /\ calc' = [calc EXCEPT !.done = TRUE,
                            !.out = parse_struct_variable(calc.value, calc.members)]
    /\ CalcOnly

\* bytes.chunks(n).enumerate(): the pieces of n bytes, the last one shorter
\* when the length is no multiple of n, numbered from 0
RECURSIVE chunks(_, _)
chunks(bytes, n) ==
    IF bytes = <<>> THEN <<>>
    ELSE IF Len(bytes) <= n THEN <<bytes>>
    ELSE <<SubSeq(bytes, 1, n)>> \o chunks(SubSeq(bytes, n + 1, Len(bytes)), n)

\* VariableParser::parse_array: bounds is None or <<lo, hi>>, size is what
\* ArrayType::size_in_bytes gives; [panic, items], an item being named by its
\* index
parse_array(bounds, size, value, element_type) ==
    IF bounds = None \/ size = None THEN [panic |-> FALSE, items |-> None]
    ELSE LET lo == unwrap(bounds)[1]
             len == unwrap(bounds)[2] - lo
         IN  IF len = 0 THEN [panic |-> TRUE, items |-> None]
             ELSE IF value = None \/ element_type = None
             THEN [panic |-> FALSE, items |-> None]
             ELSE LET el_size == unwrap(size) \div len
                      raw == IF el_size # 0 THEN chunks(unwrap(value), el_size)
                             ELSE [i \in 1..len |-> <<>>]
                  IN  [panic |-> FALSE,
                       items |-> Some([i \in 1..Len(raw) |->
                                          parse_inner(lo + (i - 1), Some(raw[i]),
                                                      unwrap(element_type))])]

\* the array of calc decoded
CalcParseArray ==
    /\ calc.fn = "parse_array" /\ ~calc.done
    /\ calc' = [calc EXCEPT !.done = TRUE,
                            !.out = parse_array(calc.bounds, calc.size, calc.value,
                                                calc.element_type)]
    /\ CalcOnly

\* ComplexType::type_size_in_bytes: the byte size of a type, None when the
\* graph does not tell it
type_size_in_bytes(known, type_id) ==
    IF known THEN Some(TypeGraph[type_id].byte_size) ELSE None

\* the outcome of PointerVariable::slice: did it panic, the read it asked
\* for (<<address, byte count>>), the items of the array it returned
SliceOutcome(panic, read, items) == [panic |-> panic, read |-> read, items |-> items]

\* PointerVariable::slice(left, right) of a pointer p = [value, target_type,
\* size_known] on a debugee that maps the addresses below top; checks tells
\* whether the build checks arithmetic overflow. A byte count above
\* isize::MAX makes Vec::with_capacity of read_memory_by_pid panic, and
\* chunks(0) panics
slice(checks, p, left, right, top) ==
    IF p.target_type = None \/ type_size_in_bytes(p.size_known, unwrap(p.target_type)) = None
       \/ p.value = None
    THEN SliceOutcome(FALSE, None, None)
    ELSE LET deref_size == unwrap(type_size_in_bytes(p.size_known, unwrap(p.target_type)))
             lo == IF left = None THEN 0 ELSE unwrap(left)
             addr == unwrap(p.value) + deref_size * lo
             count == (right - lo) % (MaxWord + 1)
             read_n == (deref_size * count) % (MaxWord + 1)
             overflows == right < lo \/ deref_size * count > MaxWord \/ addr > MaxWord
             val == read_memory_by_pid(1, top, addr % (MaxWord + 1), read_n)
         IN  IF checks /\ overflows THEN SliceOutcome(TRUE, None, None)
             ELSE IF read_n > MaxWord \div 2
             THEN SliceOutcome(TRUE, Some(<<addr % (MaxWord + 1), read_n>>), None)
             ELSE IF val = None
             THEN SliceOutcome(FALSE, Some(<<addr % (MaxWord + 1), read_n>>), None)
             ELSE IF deref_size = 0
             THEN SliceOutcome(TRUE, Some(<<addr % (MaxWord + 1), read_n>>), None)
             ELSE SliceOutcome(FALSE, Some(<<addr % (MaxWord + 1), read_n>>),
                      Some([i \in 1..Len(chunks(unwrap(val), deref_size)) |->
                               parse_inner(i - 1, Some(chunks(unwrap(val), deref_size)[i]),
                                           unwrap(p.target_type))]))

\* the pointer of calc sliced
CalcSlice ==
    /\ calc.fn = "slice" /\ ~calc.done
    /\ calc' = [calc EXCEPT !.done = TRUE,
                            !.out = slice(calc.checks, calc.p, calc.left, calc.right, calc.top)]
    /\ CalcOnly

----------------------------------------------------------------------------
(* Drop for Debugger: the calls it makes, one step each *)

\* the early return, or step_over_breakpoint().expect(..): a trace call on a
\* process that is gone fails and the expect panics
DropBegin ==
    /\ op = Idle
    /\ drop.at = "none"
    /\ IF not_started(debugee)
       THEN /\ drop' = [drop EXCEPT !.at = "done"]
            /\ UNCHANGED <<breakpoints, pc>>
       ELSE IF ~alive
       THEN /\ drop' = [drop EXCEPT !.at = "panic"]
            /\ UNCHANGED <<breakpoints, pc>>
       ELSE /\ drop' = [drop EXCEPT !.at = "detach", !.sent = <<"step_over_breakpoint">>]
            /\ breakpoints' = step_over_breakpoint(breakpoints, pc)
            /\ \E npc \in (IF steps_over_breakpoint(breakpoints, pc)
                            THEN CodePCs(debugee) ELSE {pc}) : pc' = npc
    /\ UNCHANGED <<debugee, alive, op, last, saved, hooks, sigq, calc>>

\* sys::ptrace::detach(thread.pid, None).expect(..) for the next thread of the dump
DropDetach ==
    /\ drop.at = "detach"
    /\ \E tid \in DOMAIN debugee.threads \ drop.detached :
            drop' = [drop EXCEPT !.detached = @ \cup {tid}, !.sent = Append(@, "detach")]
    /\ UNCHANGED <<debugee, breakpoints, pc, alive, op, last, saved, hooks, sigq, calc>>

\* signal::kill(proc_pid, SIGKILL).expect(..) once the dump is exhausted
DropKill ==
    /\ drop.at = "detach"
    /\ DOMAIN debugee.threads \subseteq drop.detached
    /\ drop' = [drop EXCEPT !.at = "wait", !.sent = Append(@, "kill")]
    /\ UNCHANGED <<debugee, breakpoints, pc, alive, op, last, saved, hooks, sigq, calc>>

\* waitpid(proc_pid, None).expect(..): the killed process is reaped
DropWait ==
    /\ drop.at = "wait"
    /\ drop' = [drop EXCEPT !.at = "done", !.sent = Append(@, "waitpid")]
    /\ alive' = FALSE
    /\ UNCHANGED <<debugee, breakpoints, pc, op, last, saved, hooks, sigq, calc>>

----------------------------------------------------------------------------
(* Specifications *)

\* the calls of the facade
NextCalls ==
    \/ \E addr \in PCValues : SetBreakpoint(addr)
    \/ \E found \in {None} \cup {Some(i) : i \in {j \in 1..Len(LineTable) : LineTable[j].is_stmt}} :
            SetBreakpointAtLine(found)
    \/ SetBreakpointAtFn
    \/ \E addr \in PCValues : RemoveBreakpoint(addr)
    \/ RunDebugee
    \/ ContinueDebugee
    \/ StepOut
    \/ StepOver
    \/ Stepi
    \/ StepInto
    \/ StepInIter

\* the calls that leave the breakpoint table alone when the debugee is started
NextGuarded ==
    \/ \E addr \in PCValues : RemoveBreakpoint(addr)
    \/ SetBreakpointAtFn
    \/ RunDebugee
    \/ ContinueDebugee
    \/ StepOut
    \/ StepOver
    \/ Stepi
    \/ StepInto
    \/ StepInIter
    \/ \E name \in InspectOps : Inspect(name)

\* the calls that run the debugee
NextRuns ==
    \/ RunDebugee
    \/ ContinueDebugee
    \/ StepOut
    \/ Stepi

\* the events the event loop hands to Debugger::continue_execution
NextStops ==
    \/ EvDebugeeStart
    \/ EvAtEntryPoint
    \/ EvBreakpoint
    \/ EvOsSignal
    \/ EvDebugeeExit
    \/ EvTrapTrace
    \/ EvNoSuchProcess

\* the thread lifecycle events
NextThreads ==
    \/ EvBeforeNewThread
    \/ EvThreadInterrupt
    \/ EvBeforeThreadExit
    \/ EvThreadExit

\* every facade call on a single-threaded debugee that execs once
Spec == Init /\ [][NextCalls \/ NextStops]_vars

\* the calls behind the started check, on a single-threaded debugee
SpecGuarded == Init /\ [][NextGuarded \/ NextStops]_vars

\* a multi-threaded debugee that is only run and stepped
SpecThreads == Init /\ [][NextRuns \/ NextStops \/ NextThreads]_vars

\* a debugee that may exec again
SpecReexec == Init /\ [][NextRuns \/ NextStops \/ EvDebugeeStartAgain]_vars

\* the mapping offset of a debugee in progress is known
Mapped == debugee.in_progress => debugee.mapping_addr # None

\* a debugee whose first stop after exec may find no region of its file
NextStart ==
    \/ RunDebugee
    \/ ContinueDebugee
    \/ StepOver
    \/ Mapped /\ StepOut
    \/ EvDebugeeStart
    \/ EvDebugeeStartFails
    \/ Mapped /\ EvAtEntryPoint
    \/ Mapped /\ EvBreakpoint
    \/ EvDebugeeExit

SpecStart == Init /\ [][NextStart]_vars

\* a debugee with breakpoints set by address that is run and stepped
NextBreaks ==
    \/ \E addr \in PCValues : SetBreakpoint(addr)
    \/ StepOver

SpecBreaks == Init /\ [][NextBreaks \/ NextRuns \/ NextStops]_vars

\* a debugee that is run and stepped under a hook that may fail
NextHooks ==
    \/ RunDebugee
    \/ ContinueDebugee
    \/ StepOut
    \/ StepOver
    \/ EvBreakpointHookFails

SpecHooks == Init /\ [][NextHooks \/ NextStops]_vars

\* a debugee without user breakpoints and signals that runs to its exit
NextQuiet ==
    \/ RunDebugee
    \/ ContinueDebugee
    \/ EvDebugeeStart
    \/ EvAtEntryPoint
    \/ EvDebugeeExit
    \/ NextThreads

SpecQuiet == Init /\ [][NextQuiet]_vars

\* a debugee with one breakpoint set by line that is sent signals by another process
NextSignals ==
    \/ \E found \in {Some(i) : i \in {j \in 1..Len(LineTable) : LineTable[j].is_stmt}} :
            SetBreakpointAtLine(found)
    \/ RunDebugee
    \/ ContinueDebugee
    \/ SendSignal
    \/ EvOsSignalPending
    \/ EvDebugeeStart
    \/ EvAtEntryPoint
    \/ EvBreakpoint
    \/ EvDebugeeExit
    \/ NextThreads

SpecSignals == Init /\ [][NextSignals]_vars

\* the facade is destroyed
NextDrop ==
    \/ DropBegin
    \/ DropDetach
    \/ DropKill
    \/ DropWait

\* address conversions on any words, in either build
InitAddress ==
    /\ InitDebugger
    /\ calc \in [fn : {"relocate", "into_global"}, x : Words, o : Words, checks : BOOLEAN,
                  done : {FALSE}, out : {0}, back : {0}]

SpecAddress == InitAddress /\ [][CalcRelocate \/ CalcIntoGlobal]_vars

\* memory reads of any size at any alignment, the mapping ending anywhere
InitMemory ==
    /\ InitDebugger
    /\ calc \in [fn : {"read_memory"}, seed : 0..1, addr : 0..MaxReadAddr, n : 0..MaxRead,
                  top : 0..(MaxReadAddr + MaxRead + single_read_size),
                  done : {FALSE}, out : {None}]

SpecMemory == InitMemory /\ [][CalcReadMemory]_vars

\* the regions of /proc/<pid>/maps at the first stop: start address, and
\* whether the region maps the debugee's own file
MappedRegions == [start : EntryPoint..(MaxOffset + 1), own : BOOLEAN]

\* any state applied to any started debugee, DebugeeStart applied to the
\* debugee that has not started, and the resume of any started debugee
InitApply ==
    /\ InitDebugger
    /\ calc \in UNION {{[fn |-> "apply_state", d |-> Registered(th, f), e |-> e,
                          done |-> FALSE, out |-> Registered(th, f)] :
                            f \in Tids, e \in StatesOf(th)} : th \in Registries}
                \cup {[fn |-> "apply_state", d |-> new_non_running,
                       e |-> [kind |-> "DebugeeStart", maps |-> maps], done |-> FALSE,
                       out |-> new_non_running] : maps \in SUBSET MappedRegions}
                \cup {[fn |-> "cont_stopped", d |-> Registered(th, f),
                       e |-> [kind |-> "resume"], done |-> FALSE,
                       out |-> Registered(th, f)] : th \in Registries, f \in Tids}

SpecApply == InitApply /\ [][CalcApplyState \/ CalcContStopped]_vars

\* the tables of a started debugee whose records were all enabled when set
StartedTables ==
    {[k \in K |-> enable(Breakpoint_new(k))] : K \in SUBSET {Relocated(a) : a \in TraceAddrs}}

\* the stepping primitives, one after another, on a started debugee
InitTrace ==
    /\ InitDebugger
    /\ calc \in {[fn |-> "trace", tbl |-> t, op |-> "none", at |-> EntryPoint,
                   focus |-> f, calls |-> <<>>, ok |-> TRUE] : t \in StartedTables, f \in Tids}

SpecTrace == InitTrace /\ [][CalcStepOverBreakpoint \/ CalcSingleStepInstruction]_vars

\* the installation Debugger::new leaves: the record of the entry point,
\* disabled, and the program bytes untouched
NotInstalled ==
    [tbl |-> insert(EmptyTable, Global(EntryPoint), Breakpoint_new(Global(EntryPoint))),
     saved_data |-> [k \in {} |-> 0],
     mem |-> [a \in RelocatedAddrs |-> OriginalByte(a)]]

\* breakpoints are set and removed and the debugee is stepped after it has
\* started and stopped at its entry point
InitInstall ==
    /\ InitDebugger
    /\ calc \in {[fn |-> "install", offset |-> o, op |-> "none",
                   st |-> on_debugee_start_in(NotInstalled, o),
                   at |-> relocate(EntryPoint, o)] : o \in Offsets}

NextInstall ==
    \/ CalcSetBreakpoint
    \/ CalcRemoveBreakpoint
    \/ CalcStepOver
    \/ CalcStepOut

SpecInstall == InitInstall /\ [][NextInstall]_vars

\* a multi-threaded debugee whose facade is destroyed between two calls
InitMatch ==
    /\ InitDebugger
    /\ calc \in [fn : {"match_literal"}, v : Sequences \cup Tuples, l : ArrayLiterals,
                  done : {FALSE}, out : {FALSE}]

SpecMatch == InitMatch /\ [][CalcMatchLiteral]_vars

\* the members of a type-graph structure: name, type reference, offset
StructureMembers == [name : {"a", "b"}, type_ref : {None} \cup {Some(t) : t \in TypeIds},
                     offset : 0..MaxItems]

\* the bytes read for a value: none, or some of the first MaxItems + 1 bytes
ValueBytes == {None} \cup {Some([i \in 1..n |-> mem_byte(1, i)]) : n \in 0..(MaxItems + 1)}

\* structures of up to MaxItems members decoded from the bytes read
InitParseStruct ==
    /\ InitDebugger
    /\ calc \in [fn : {"parse_struct_variable"}, value : ValueBytes,
                  members : SeqsUpTo(StructureMembers, MaxItems),
                  done : {FALSE}, out : {<<>>}]

SpecParseStruct == InitParseStruct /\ [][CalcParseStruct]_vars

\* the bounds of an array: lo inclusive, hi exclusive, hi >= lo
ArrayBounds == {<<lo, lo + n>> : lo \in (0 - 1)..1, n \in 0..MaxItems}

\* arrays of up to MaxItems items of a type of the graph: the size of the
\* array is the size of its items, and the bytes read are that many
InitParseArray ==
    /\ InitDebugger
    /\ calc \in UNION {{[fn |-> "parse_array", bounds |-> b, size |-> size, value |-> v,
                          element_type |-> t, done |-> FALSE,
                          out |-> [panic |-> FALSE, items |-> None]] :
                            b \in {None, Some(bd)},
                            size \in {None, Some(TypeGraph[el].byte_size * (bd[2] - bd[1]))},
                            v \in {None, Some([i \in 1..(TypeGraph[el].byte_size * (bd[2] - bd[1]))
                                                  |-> mem_byte(1, i)])},
                            t \in {None, Some(el)}} :
                        bd \in ArrayBounds, el \in TypeIds}

SpecParseArray == InitParseArray /\ [][CalcParseArray]_vars

\* pointers into the first bytes of the debugee, to a type of the graph or to
\* an unknown type, the size of the type known or not
SlicedPointers == [value : {None} \cup {Some(a) : a \in 0..MaxReadAddr},
                   target_type : {None} \cup {Some(t) : t \in TypeIds},
                   size_known : BOOLEAN]

\* slices [left..right] with bounds up to MaxItems + 1, in either order, of a
\* pointer into memory that is all mapped or not mapped at all
InitSlice ==
    /\ InitDebugger
    /\ calc \in [fn : {"slice"}, checks : BOOLEAN, p : SlicedPointers,
                  left : {None} \cup {Some(l) : l \in 0..(MaxItems + 1)},
                  right : 0..(MaxItems + 1),
                  top : {0, MaxReadAddr + MaxRead + single_read_size},
                  done : {FALSE}, out : {SliceOutcome(FALSE, None, None)}]

SpecSlice == InitSlice /\ [][CalcSlice]_vars

InitStruct ==
    /\ InitDebugger
    /\ calc \in [fn : {"match_literal"}, v : Structures, l : AssocArrays,
                  done : {FALSE}, out : {FALSE}]

SpecStruct == InitStruct /\ [][CalcMatchLiteral]_vars

InitSet ==
    /\ InitDebugger
    /\ calc \in [fn : {"match_literal"}, v : Sets, l : SetLiterals, done : {FALSE}, out : {FALSE}]

SpecSet == InitSet /\ [][CalcMatchLiteral]_vars

InitEnum ==
    /\ InitDebugger
    /\ calc \in [fn : {"match_literal"}, v : Enums, l : EnumLiterals, done : {FALSE}, out : {FALSE}]

SpecEnum == InitEnum /\ [][CalcMatchLiteral]_vars

InitPointer ==
    /\ InitDebugger
    /\ calc \in [fn : {"match_literal"}, v : Pointers, l : PointerLiterals,
                  done : {FALSE}, out : {FALSE}]

SpecPointer == InitPointer /\ [][CalcMatchLiteral]_vars

InitInt ==
    /\ InitDebugger
    /\ calc \in [fn : {"match_literal"}, v : IntScalars, l : IntLiterals,
                  done : {FALSE}, out : {FALSE}]

SpecInt == InitInt /\ [][CalcMatchLiteral]_vars

InitRender ==
    /\ InitDebugger
    /\ calc \in [fn : {"render"},
                  v : {ScalarVariable(sc) : sc \in SupportedScalar} \cup Sequences \cup Tuples,
                  l : {None}, done : {FALSE}, out : {FALSE}]

SpecRender == InitRender /\ [][CalcMatchRendered]_vars

SpecDrop == Init /\ [][NextRuns \/ NextStops \/ NextThreads \/ NextDrop]_vars

----------------------------------------------------------------------------
(* Properties *)

AllRelocated(tbl) == \A k \in DOMAIN tbl : IsRelocated(k)
AllGlobal(tbl) == \A k \in DOMAIN tbl : IsGlobal(k)
AllEnabled(tbl) == \A k \in DOMAIN tbl : tbl[k].enabled
AllStopped(th) == \A t \in DOMAIN th : th[t] = "Stopped"

\* C1: before DebugeeStart is handled every key of the breakpoint table is a
\* global address, after it every key is a relocated address, whatever facade
\* operations are called.
C1_KeyKindFollowsPhase ==
    IF debugee.in_progress THEN AllRelocated(breakpoints) ELSE AllGlobal(breakpoints)

\* C2: handling DebugeeStart moves every record keyed by a global address g to
\* the relocated key g + offset with its addr field equal to the new key, keeps
\* the relocated keys, leaves every record enabled, and the loop goes on
\* waiting: the debugee is resumed only with all registered breakpoints armed.
C2_StartRekeysAndEnables ==
    [][EvDebugeeStart =>
        LET off == unwrap(debugee'.mapping_addr)
        IN  /\ \A k \in DOMAIN breakpoints :
                LET nk == IF IsGlobal(k) THEN Relocated(k[2] + off) ELSE k
                IN  nk \in DOMAIN breakpoints' /\ breakpoints'[nk].addr = nk
            /\ Cardinality(DOMAIN breakpoints') <= Cardinality(DOMAIN breakpoints)
            /\ AllRelocated(breakpoints')
            /\ AllEnabled(breakpoints')
            /\ op' = op
            /\ debugee'.threads[MainPid] = "Running"]_vars

\* C2 witness: the loop waits again after DebugeeStart, the entry-point record
\* and a record registered before start are both rekeyed and armed.
C2_Witness ==
    /\ op.name = "run_debugee"
    /\ debugee.in_progress
    /\ ~debugee.rendezvous
    /\ LET off == mapping_offset(debugee)
       IN  /\ DOMAIN breakpoints = {Relocated(EntryPoint + off), Relocated(FnBegin + off)}
           /\ AllEnabled(breakpoints)

\* the facade methods the claim expects behind the started check
GuardedOps ==
    {"continue", "step_instruction", "step_in", "step_over", "step_out",
     "remove_breakpoint"} \cup InspectOps

\* C3: every facade method except set_breakpoint, called while in_progress is
\* false, fails with the 'program not started' error and leaves the breakpoint
\* table and the debugee state unchanged.
C3_NotStartedCallsFail ==
    [][(op = Idle /\ op' = Idle /\ ~debugee.in_progress /\ last'.name \in GuardedOps) =>
            /\ last'.res = "not_started"
            /\ breakpoints' = breakpoints
            /\ debugee' = debugee]_vars

\* C4: when a continue/step operation returns because of Breakpoint,
\* AtEntryPoint or OsSignal, every thread in the registry is Stopped.
C4_AllStoppedAtStop ==
    [][((EvBreakpoint \/ EvAtEntryPoint \/ EvOsSignal) /\ op' = Idle) =>
            AllStopped(debugee'.threads)]_vars

\* C5: whenever the facade is idle after DebugeeStart, the focus thread is a
\* member of the registry and Stopped.
C5_FocusRegisteredAndStopped ==
    (op = Idle /\ debugee.in_progress) =>
        /\ debugee.focus \in DOMAIN debugee.threads
        /\ debugee.threads[debugee.focus] = "Stopped"

\* C6: until DebugeeExit is applied the main process id is a member of the
\* thread registry.
C6_MainRegisteredUntilExit ==
    alive => MainPid \in DOMAIN debugee.threads

\* C7: after step_over returns successfully the breakpoint table (keys and
\* enabled flags) equals the table as it was before the call.
C7_StepOverRestoresTable ==
    (op = Idle /\ last.name = "step_over" /\ last.res = "ok") => breakpoints = saved

\* C7 witness: step_over has returned successfully on a live debugee, stopped
\* at an address that holds no record (a transient breakpoint or a signal),
\* while a breakpoint set by the caller inside the function is in the table.
C7_Witness ==
    /\ op = Idle /\ last.name = "step_over" /\ last.res = "ok" /\ alive
    /\ Relocated(pc) \notin DOMAIN breakpoints
    /\ \E g \in FnBegin..(FnEnd - 1) :
            Relocated(g + mapping_offset(debugee)) \in DOMAIN breakpoints

C9_OffsetAssignedOnce ==
    [][/\ (debugee.mapping_addr = None /\ debugee'.mapping_addr # None) =>
                (EvDebugeeStart \/ EvDebugeeStartAgain)
       /\ debugee.mapping_addr # None => debugee'.mapping_addr = debugee.mapping_addr]_vars

\* a thread lifecycle event is consumed
ThreadEvent == EvBeforeNewThread \/ EvThreadInterrupt \/ EvBeforeThreadExit \/ EvThreadExit

OnTrap(at) ==
    [hook |-> "on_trap", pc |-> at,
     place |-> find_place_from_pc(into_global(at, mapping_offset(debugee)))]

\* C11: a continue/step operation calls no hook while it loops and at most one
\* when it returns: exactly on_trap(pc, place) after a Breakpoint event,
\* exactly on_signal(signo, code) after an OsSignal event, exactly
\* on_exit(code) after DebugeeExit, and none after TrapTrace or NoSuchProcess.
C11_OneHookPerOperation ==
    [][/\ op'.name # "idle" => hooks' = <<>>
       /\ Len(hooks') <= 1
       /\ EvBreakpoint => (op' = Idle /\ hooks' = <<OnTrap(pc')>>)
       /\ EvOsSignal =>
            /\ op' = Idle /\ Len(hooks') = 1
            /\ hooks'[1].hook = "on_signal" /\ hooks'[1].signo \in Signals
       /\ EvDebugeeExit =>
            /\ op' = Idle /\ Len(hooks') = 1
            /\ hooks'[1].hook = "on_exit" /\ hooks'[1].code \in ExitCodes
       /\ (EvTrapTrace \/ EvNoSuchProcess) => (op' = Idle /\ hooks' = <<>>)]_vars

\* C11 witness: continue has returned from a stop on a breakpoint inside the
\* function, after exactly one on_trap call with that address and its place.
C11_Witness ==
    /\ op = Idle /\ last = [name |-> "continue", res |-> "ok"]
    /\ debugee.rendezvous
    /\ hooks = <<OnTrap(pc)>>
    /\ hooks[1].place # None

C14_ExitLeavesNoChild ==
    [][(op # Idle /\ op' = Idle /\ Len(hooks') = 1 /\ hooks'[1].hook = "on_exit") =>
            /\ MainPid \notin DOMAIN debugee'.threads
            /\ ~alive'
            /\ drop' = NotDropped]_vars

\* C14 witness: continue has returned after on_exit(0) on a debugee that had
\* passed its entry point.
C14_Witness ==
    /\ op = Idle /\ last = [name |-> "continue", res |-> "ok"]
    /\ hooks = <<[hook |-> "on_exit", code |-> 0]>>
    /\ debugee.rendezvous
    /\ ~alive
    /\ drop = NotDropped

\* the destruction has ended: Drop has returned or panicked
DropEnded == drop.at \in {"done", "panic"}

\* the calls of a complete destruction, n threads registered
RECURSIVE Detaches(_)
Detaches(n) == IF n = 0 THEN <<>> ELSE <<"detach">> \o Detaches(n - 1)
FullDrop(n) == <<"step_over_breakpoint">> \o Detaches(n) \o <<"kill", "waitpid">>

\* C15: destroying a started facade performs, in this order: the step over a
\* pending breakpoint, the detach of every registered thread, the kill of the
\* main process, the wait for it; no kill before all threads are detached,
\* and the destruction does not end before the wait has returned.
C15_DropOrder ==
    /\ (\E i \in 1..Len(drop.sent) : drop.sent[i] = "kill") =>
            drop.detached = DOMAIN debugee.threads
    /\ (DropEnded /\ debugee.in_progress) =>
            drop.sent = FullDrop(Cardinality(DOMAIN debugee.threads))

\* C16: in every state in which the facade can be destroyed (never started,
\* stopped, after DebugeeExit) the destruction completes without a panic and
\* afterwards the traced child is dead and reaped.
C16_DropKillsAndReaps ==
    /\ drop.at # "panic"
    /\ drop.at = "done" => ~alive

\* C17: for all words g and o, relocate(g, o) holds g + o and converting it
\* back gives g; for every relocated address r (a word not below o),
\* into_global(r, o) converted back gives r.
C17_RelocateRoundTrip ==
    /\ (calc.fn = "relocate" /\ calc.done) =>
            (calc.out = calc.x + calc.o /\ calc.back = calc.x)
    /\ (calc.fn = "into_global" /\ calc.done /\ calc.x >= calc.o) => calc.back = calc.x

\* C17 (amended): for words g and o whose sum is a word, relocate(g, o) holds
\* g + o and converting it back gives g; for words r >= o, into_global(r, o)
\* holds r - o and converting it back gives r; outside these ranges the
\* conversion panics in a build with overflow checks and wraps around in one
\* without, where the round trip still gives the argument back.
C17_RelocateRoundTripInRange ==
    /\ (calc.fn = "relocate" /\ calc.done) =>
            IF calc.x + calc.o <= MaxWord
            THEN calc.out = calc.x + calc.o /\ calc.back = calc.x
            ELSE IF calc.checks THEN calc.out = Panic
            ELSE calc.out = calc.x + calc.o - (MaxWord + 1) /\ calc.back = calc.x
    /\ (calc.fn = "into_global" /\ calc.done) =>
            IF calc.x >= calc.o
            THEN calc.out = calc.x - calc.o /\ calc.back = calc.x
            ELSE IF calc.checks THEN calc.out = Panic
            ELSE calc.out = calc.x - calc.o + (MaxWord + 1) /\ calc.back = calc.x

\* C17 witness: a nonzero address relocated by a nonzero offset without
\* overflow, and converted back.
C17_Witness ==
    /\ calc.fn = "relocate" /\ calc.done
    /\ calc.x > 0 /\ calc.o > 0 /\ calc.x + calc.o <= MaxWord
    /\ calc.out = calc.x + calc.o /\ calc.back = calc.x

\* the number of word reads read_memory_by_pid makes for n bytes
WordReads(n) == (n + single_read_size - 1) \div single_read_size

\* C18: read_memory(a, N) succeeds exactly when every word it reads is mapped;
\* it then returns exactly N bytes, the debugee bytes at a .. a+N-1 in order
\* (the last word cut to the bytes that remain); otherwise the whole read
\* fails with no partial result.
C18_ReadMemoryExact ==
    (calc.fn = "read_memory" /\ calc.done) =>
        IF \A k \in 0..(WordReads(calc.n) - 1) :
                word_mapped(calc.top, calc.addr + k * single_read_size)
        THEN /\ calc.out # None
             /\ Len(unwrap(calc.out)) = calc.n
             /\ \A i \in 1..calc.n :
                    unwrap(calc.out)[i] = mem_byte(calc.seed, calc.addr + i - 1)
        ELSE calc.out = None

\* C18 witness: a successful read at an odd address of two whole words and a
\* tail of one byte.
C18_Witness ==
    /\ calc.fn = "read_memory" /\ calc.done
    /\ calc.addr = 1 /\ calc.n = 2 * single_read_size + 1
    /\ calc.out # None
    /\ Len(unwrap(calc.out)) = calc.n

\* C19: the matcher is reflexive: every value whose scalars all carry a
\* rendered value (integers of every width, floats, booleans, chars, the
\* empty scalar, and aggregates of them) matches the literal obtained by
\* rendering it field by field.
C19_MatchReflexive ==
    (calc.fn = "render" /\ calc.done) => calc.out

\* the items of an array, a vector, a deque or a structure taken as a tuple
ItemsOf(var) ==
    CASE var.ir = "Array" -> var.value.items
      [] var.ir = "Struct" -> var.value.members
      [] var.ir \in {"Vector", "VecDeque"} -> var.value.structure.members[1].value.items

\* the entries of L and the items agree position by position
PositionalMatch(items, L) ==
    /\ Len(L) = Len(items)
    /\ \A i \in 1..Len(items) : L[i].lit = "Wildcard" \/ match_literal(items[i], L[i])

\* C20: an array, a vector, a deque or a tuple structure with n items matches
\* a positional-array literal L exactly when L has n entries and at every
\* position the entry is a wildcard or the item matches it; a vector and a
\* deque give the result of their inner array.
C20_PositionalArray ==
    (calc.fn = "match_literal" /\ calc.done) =>
        /\ calc.out = PositionalMatch(ItemsOf(calc.v), calc.l.array)
        /\ calc.v.ir \in {"Vector", "VecDeque"} =>
               calc.out = match_literal(ArrayVariable(ItemsOf(calc.v)), calc.l)

\* a deque of two items matched with a literal of one item and one wildcard
C20_Witness ==
    /\ calc.fn = "match_literal" /\ calc.done /\ calc.out
    /\ calc.v.ir = "VecDeque" /\ Len(ItemsOf(calc.v)) = MaxItems
    /\ calc.l.array[1].lit = "String" /\ calc.l.array[MaxItems].lit = "Wildcard"

\* the names of the members of a structure
MemberNames(members) == {unwrap(name_of(members[i])) : i \in {j \in 1..Len(members) : name_of(members[j]) # None}}

\* the member names are the keys, and each member agrees with the entry
\* under its name
AssocMatch(members, struct_literal) ==
    /\ \A i \in 1..Len(members) : name_of(members[i]) # None
    /\ MemberNames(members) = DOMAIN struct_literal
    /\ \A i \in 1..Len(members) :
           \/ struct_literal[unwrap(name_of(members[i]))].lit = "Wildcard"
           \/ match_literal(members[i], struct_literal[unwrap(name_of(members[i]))])

\* C21: a structure matches an associative-array literal exactly when its
\* member names are the keys of the literal and every member agrees with the
\* entry under its name (a wildcard or a literal it matches); a structure
\* with an unnamed member matches no associative array.
C21_StructVsAssocArray ==
    (calc.fn = "match_literal" /\ calc.done /\ calc.v.ir = "Struct" /\ calc.l.lit = "AssocArray") =>
        /\ calc.out = AssocMatch(calc.v.value.members, calc.l.assoc)
        /\ (\E i \in 1..Len(calc.v.value.members) : name_of(calc.v.value.members[i]) = None)
               => ~calc.out

\* a structure of a scalar and a vector matched by name, one entry a
\* wildcard, the other a positional array
C21_Witness ==
    /\ calc.fn = "match_literal" /\ calc.done /\ calc.out
    /\ calc.v.ir = "Struct" /\ calc.l.lit = "AssocArray"
    /\ Len(calc.v.value.members) = MaxItems
    /\ \E n \in DOMAIN calc.l.assoc : calc.l.assoc[n].lit = "Wildcard"
    /\ \E n \in DOMAIN calc.l.assoc : calc.l.assoc[n].lit = "Array"

\* the one-to-one pairings of n items with n entries
Pairings(n) == {f \in [1..n -> 1..n] : \A i, j \in 1..n : f[i] = f[j] => i = j}

\* some pairing joins every item with a wildcard or a literal it matches
BagMatch(items, L) ==
    /\ Len(L) = Len(items)
    /\ \E f \in Pairings(Len(items)) :
           \A i \in 1..Len(items) : L[f[i]].lit = "Wildcard" \/ match_literal(items[i], L[f[i]])

\* C22: a hash set or a tree set matches a positional-array literal exactly
\* when both have the same number of elements and the items can be paired
\* one-to-one with the entries, every item matching its entry (a wildcard
\* matches any item); the order of the items and of the entries plays no
\* role, also when entries are nested literals holding wildcards.
C22_SetBagEquality ==
    (calc.fn = "match_literal" /\ calc.done /\ calc.v.ir \in {"HashSet", "BTreeSet"}) =>
        calc.out = BagMatch(calc.v.value.items, calc.l.array)

\* C23: a C-style enum matches only an enum-variant literal without a value
\* whose name is the rendered tag; a tagged enum matches only an enum-variant
\* literal whose name is the name of the selected structure and whose value,
\* when given, matches that structure; neither matches a string literal of
\* the same text.
C23_EnumVsVariant ==
    (calc.fn = "match_literal" /\ calc.done) =>
        /\ calc.v.ir = "CEnum" =>
               calc.out = /\ calc.v.value # None /\ calc.l.lit = "EnumVariant"
                          /\ calc.l.variant_value = None
                          /\ calc.l.variant = calc.v.value.tag
        /\ calc.v.ir = "RustEnum" =>
               calc.out = /\ calc.v.value # None /\ calc.l.lit = "EnumVariant"
                          /\ name_of(calc.v.value.variant) = Some(calc.l.variant)
                          /\ calc.l.variant_value # None =>
                                 match_literal(calc.v.value.variant, unwrap(calc.l.variant_value))
        /\ (calc.v.ir \in {"CEnum", "RustEnum"} /\ calc.l.lit = "String") => ~calc.out

\* a tagged enum matched with the literal of its variant and a positional
\* array for the members of the variant
C23_Witness ==
    /\ calc.fn = "match_literal" /\ calc.done /\ calc.out
    /\ calc.v.ir = "RustEnum" /\ Len(calc.v.value.variant.value.members) = MaxItems - 1
    /\ calc.l.variant_value # None /\ unwrap(calc.l.variant_value).lit = "Array"

\* the address a pointer, or a shared-ownership wrapper through its inner
\* pointer, holds; None when it was not rendered
PointerOf(var) ==
    IF var.value = None THEN None
    ELSE IF var.ir = "Pointer" THEN Some(var.value.ptr)
    ELSE IF var.value.value = None THEN None
    ELSE Some(var.value.value.ptr)

\* C24: a pointer, or a shared-ownership wrapper through its inner pointer,
\* with value p matches a literal exactly when the literal is an address
\* literal of value p; it never matches an integer literal of the same value.
C24_PointerVsAddress ==
    (calc.fn = "match_literal" /\ calc.done /\ calc.v.ir \in {"Pointer", "Rc", "Arc"}) =>
        /\ calc.out = /\ PointerOf(calc.v) # None /\ calc.l.lit = "Address"
                      /\ calc.l.address = unwrap(PointerOf(calc.v))
        /\ calc.l.lit = "Int" => ~calc.out

\* a shared-ownership wrapper matched with the address of its inner pointer
C24_Witness ==
    /\ calc.fn = "match_literal" /\ calc.done /\ calc.out
    /\ calc.v.ir = "Arc" /\ calc.l.lit = "Address" /\ calc.l.address # 0

\* C25: an integer scalar of any width and signedness matches an integer
\* literal n exactly when the value of the scalar is n, also for unsigned
\* values from 2^63 on and for 128-bit values outside the 64-bit range.
C25_IntVsLiteral ==
    (calc.fn = "match_literal" /\ calc.done /\ calc.v.ir = "Scalar" /\ calc.l.lit = "Int") =>
        calc.out = (calc.v.value.int = calc.l.int)

\* C27: in every reachable state a debugee in progress has its mapping offset
\* set, so that no call behind the started check reaches mapping_offset()
\* without one
C27_InProgressMapped == debugee.in_progress => debugee.mapping_addr # None

\* a call behind the started check has reached mapping_offset() without an offset
C27_Panics == last = [name |-> "step_over", res |-> "panic"]

\* C28: when the event loop of step_over returns an error after step_over has
\* planted at least one transient breakpoint, the breakpoint table that
\* step_over leaves equals the table it found
C28_ErrorPathRestores ==
    [][(EvBreakpointHookFails /\ op.name = "step_over" /\ op.to_delete # <<>>)
            => breakpoints' = saved]_vars

\* the hardware single steps among trace calls
Steps(calls) == SelectSeq(calls, LAMBDA c : c.call = "step")

\* p is a prefix of q
IsPrefix(p, q) == Len(p) <= Len(q) /\ SubSeq(q, 1, Len(p)) = p

\* C29: step_over_breakpoint with the focus PC on an enabled breakpoint calls
\* disable, one single step of the focus thread and enable, in that order (an
\* error ends the calls there); otherwise it makes no call and changes
\* nothing; after a successful return every record has the flag it had
C29_StepOverBreakpointOrder ==
    [][CalcStepOverBreakpoint =>
        LET k == Relocated(calc'.at)
            full == <<BreakpointCall("disable", k), ThreadStep(calc'.focus),
                      BreakpointCall("enable", k)>>
        IN  /\ steps_over_breakpoint(calc.tbl, calc'.at) =>
                    /\ IsPrefix(calc'.calls, full)
                    /\ calc'.ok => calc'.calls = full
            /\ ~steps_over_breakpoint(calc.tbl, calc'.at) =>
                    /\ calc'.calls = <<>>
                    /\ calc'.tbl = calc.tbl
            /\ calc'.ok => calc'.tbl = calc.tbl]_vars

\* step_over_breakpoint has stepped over an enabled breakpoint and returned Ok
C29_Witness ==
    /\ calc.fn = "trace"
    /\ calc.op = "step_over_breakpoint"
    /\ calc.ok
    /\ Len(calc.calls) = 3
    /\ calc.tbl[Relocated(calc.at)].enabled

\* C30: a successful single_step_instruction has issued exactly one hardware
\* single step, to the focus thread, whatever record the table holds for the PC
C30_ExactlyOneStep ==
    (calc.fn = "trace" /\ calc.op = "single_step_instruction" /\ calc.ok)
        => Steps(calc.calls) = <<ThreadStep(calc.focus)>>

\* C26: whenever the breakpoint table holds no record for a code address, the
\* byte of the debugee at that address is the original program byte
C26_NoTrapLeftBehind ==
    calc.fn = "install" =>
        \A a \in CodePCs(Started(calc.offset)) :
            Relocated(a) \notin DOMAIN calc.st.tbl => calc.st.mem[a] = OriginalByte(a)

\* every record of a table has the enabled flag v
FlagsAre(tbl, v) == \A k \in DOMAIN tbl : tbl[k].enabled = v

\* the enabled flags while trace calls fail only on a process that is gone:
\* every record is disabled before DebugeeStart is handled and enabled whenever
\* the facade is idle afterwards
EnabledFollowsLifecycle ==
    /\ ~debugee.in_progress => FlagsAre(breakpoints, FALSE)
    /\ (debugee.in_progress /\ op = Idle) => FlagsAre(breakpoints, TRUE)

\* C31: after DebugeeStart every record of the table is enabled whenever no
\* operation is in flight (a record is disabled only inside
\* step_over_breakpoint), here between any two stepping primitives
C31_EnabledBetweenPrimitives == calc.fn = "trace" => FlagsAre(calc.tbl, TRUE)

\* the source line of the place of a program counter
LineAt(d, at) == LineTable[unwrap(find_place_from_pc(into_global(at, mapping_offset(d))))].line

\* C32: when step_in returns successfully the line of the focus PC differs
\* from the line step_in started on
C32_StepInLeavesLine ==
    [][(op.name = "step_in" /\ op' = Idle /\ last'.res = "ok")
            => LineAt(debugee, pc') # LineTable[unwrap(op.place)].line]_vars

\* the elements of a sequence
Range(seq) == {seq[i] : i \in 1..Len(seq)}

\* the relocated addresses of the statement rows of the function around the
\* focus PC whose address differs from the address of the current row
StatementAddrs(d, at) ==
    LET o == mapping_offset(d)
        g == into_global(at, o)
        cur == LineTable[unwrap(find_place_from_pc(g))]
        ranges == unwrap(find_function_by_pc(g))
    IN  {relocate(LineTable[i].address, o) : i \in
            {j \in 1..Len(LineTable) :
                /\ LineTable[j].is_stmt
                /\ LineTable[j].address # cur.address
                /\ \E r \in Range(ranges) :
                        LineTable[j].address >= r.begin /\ LineTable[j].address < r.end}}

\* C33: the transient breakpoints step_over plants are the statement addresses
\* of the current function other than the current one, plus the return
\* address when it is known, minus the addresses that hold a breakpoint
\* already, and each of them is planted once
C33_TransientsPlantedOnce ==
    [][(StepOver /\ op'.name = "step_over") =>
        LET held == {k[2] : k \in {x \in DOMAIN breakpoints : IsRelocated(x)}}
            rows == StatementAddrs(debugee, pc) \ held
        IN  /\ \E ret \in {{}} \cup {{a} : a \in CodePCs(debugee) \ held} :
                    Range(op'.to_delete) = rows \cup ret
            /\ DOMAIN breakpoints' = DOMAIN breakpoints \cup
                    {Relocated(a) : a \in Range(op'.to_delete)}
            /\ \A i, j \in 1..Len(op'.to_delete) :
                    op'.to_delete[i] = op'.to_delete[j] => i = j]_vars

\* the addresses step_over plants, taken as a set
TransientsAsSet ==
    [][(StepOver /\ op'.name = "step_over") =>
        LET held == {k[2] : k \in {x \in DOMAIN breakpoints : IsRelocated(x)}}
            rows == StatementAddrs(debugee, pc) \ held
        IN  /\ \E ret \in {{}} \cup {{a} : a \in CodePCs(debugee) \ held} :
                    Range(op'.to_delete) = rows \cup ret
            /\ DOMAIN breakpoints' = DOMAIN breakpoints \cup
                    {Relocated(a) : a \in Range(op'.to_delete)}]_vars

\* the registry of the debugee of calc before and after apply_state
Before == calc.d.threads
After == calc.out.threads

\* C34: ThreadInterrupt(tid) on a Created thread marks it Stopped and then
\* resumes every stopped thread; on any other thread it only marks it Stopped
\* and resumes none; BeforeNewThread(pid, tid) marks pid Stopped and registers
\* tid as Created, and resumes no thread
C34_InterruptAndNewThread ==
    (calc.fn = "apply_state" /\ calc.done) =>
        /\ (calc.e.kind = "ThreadInterrupt" /\ Before[calc.e.tid] = "Created") =>
                /\ DOMAIN After = DOMAIN Before
                /\ \A t \in DOMAIN Before :
                        After[t] = IF t = calc.e.tid \/ Before[t] = "Stopped"
                                   THEN "Running" ELSE Before[t]
        /\ (calc.e.kind = "ThreadInterrupt" /\ Before[calc.e.tid] # "Created") =>
                /\ DOMAIN After = DOMAIN Before
                /\ \A t \in DOMAIN Before :
                        After[t] = IF t = calc.e.tid THEN "Stopped" ELSE Before[t]
        /\ calc.e.kind = "BeforeNewThread" =>
                /\ DOMAIN After = DOMAIN Before \cup {calc.e.tid}
                /\ After[calc.e.tid] = "Created"
                /\ After[calc.e.pid] = "Stopped"
                /\ \A t \in DOMAIN Before \ {calc.e.pid} : After[t] = Before[t]
        /\ calc.e.kind \in {"ThreadInterrupt", "BeforeNewThread"} =>
                /\ calc.out.focus = calc.d.focus
                /\ calc.out.mapping_addr = calc.d.mapping_addr

\* ThreadInterrupt has been applied to a thread that is not Created while
\* another thread is stopped, and that thread is still stopped
C34_Witness ==
    /\ calc.fn = "apply_state" /\ calc.done
    /\ calc.e.kind = "ThreadInterrupt"
    /\ Before[calc.e.tid] = "Running"
    /\ \E t \in DOMAIN Before \ {calc.e.tid} : Before[t] = "Stopped" /\ After[t] = "Stopped"

\* C35: the focus becomes the thread of a Breakpoint, AtEntryPoint or OsSignal
\* state that is applied; every other state and every resume leave the focus
\* as it was, and TrapTrace and NoSuchProcess leave the whole debugee as it was
C35_FocusFrame ==
    (calc.fn \in {"apply_state", "cont_stopped"} /\ calc.done) =>
        /\ calc.out.focus = IF calc.e.kind \in {"Breakpoint", "AtEntryPoint", "OsSignal"}
                            THEN calc.e.tid ELSE calc.d.focus
        /\ calc.e.kind \in {"TrapTrace", "NoSuchProcess"} => calc.out = calc.d

\* a Breakpoint state of another thread than the one in focus has been applied
C35_Witness ==
    /\ calc.fn = "apply_state" /\ calc.done
    /\ calc.e.kind = "Breakpoint"
    /\ calc.e.tid # calc.d.focus
    /\ calc.out.focus = calc.e.tid

\* the start addresses of the regions of maps that map the debugee's own file
OwnStarts(maps) == {m.start : m \in {n \in maps : n.own}}

\* C36: the mapping offset set at DebugeeStart is the least start address among
\* the regions of the debugee's own file, whatever the regions of other files;
\* with no such region the computation fails and no offset is set
C36_MappingOffsetIsLowestOwn ==
    (calc.fn = "apply_state" /\ calc.done /\ calc.e.kind = "DebugeeStart") =>
        IF OwnStarts(calc.e.maps) = {}
        THEN calc.out.mapping_addr = None
        ELSE /\ calc.out.mapping_addr # None
             /\ unwrap(calc.out.mapping_addr) \in OwnStarts(calc.e.maps)
             /\ \A a \in OwnStarts(calc.e.maps) : unwrap(calc.out.mapping_addr) <= a

\* DebugeeStart has been applied while a region of another file lies below
\* every region of the debugee's own file
C36_Witness ==
    /\ calc.fn = "apply_state" /\ calc.done /\ calc.e.kind = "DebugeeStart"
    /\ Cardinality(OwnStarts(calc.e.maps)) > 1
    /\ \E m \in calc.e.maps :
           ~m.own /\ \A a \in OwnStarts(calc.e.maps) : m.start < a
    /\ calc.out.mapping_addr # None

\* C37: a breakpoint operation that returns an error leaves the table as it
\* was (set_breakpoint inserted or replaced nothing, remove_breakpoint kept the
\* record), and remove_breakpoint of an address without a record succeeds and
\* changes nothing
C37_FailedOpKeepsTable ==
    [][\A a \in PCValues :
          /\ ((SetBreakpoint(a) \/ RemoveBreakpoint(a)) /\ last'.res = "err") =>
                 breakpoints' = breakpoints
          /\ (RemoveBreakpoint(a) /\ a \notin DOMAIN breakpoints) =>
                 (last'.res = "ok" /\ breakpoints' = breakpoints)]_vars

\* the parts of C37 that hold: a failed set_breakpoint leaves the table as it
\* was, and so does remove_breakpoint of an address without a record
FailedSetKeepsTable ==
    [][\A a \in PCValues :
          /\ (SetBreakpoint(a) /\ last'.res = "err") => breakpoints' = breakpoints
          /\ (RemoveBreakpoint(a) /\ a \notin DOMAIN breakpoints) =>
                 (last'.res = "ok" /\ breakpoints' = breakpoints)]_vars

\* the member of the structure of calc that node i of the decoded structure
\* stands for, were no member dropped
MemberOf(i) == calc.members[i]

\* member m of the structure of calc has all its bytes in the bytes read
Decodable(m) ==
    /\ m.type_ref # None /\ calc.value # None
    /\ m.offset + TypeGraph[unwrap(m.type_ref)].byte_size <= Len(unwrap(calc.value))

\* C38: the decoded structure has one node per member of the type-graph
\* structure, in declaration order, and a member that cannot be decoded (its
\* bytes are missing or its type reference is unknown) is a node without a value
C38_NoMemberDropped ==
    (calc.fn = "parse_struct_variable" /\ calc.done) =>
        /\ Len(calc.out) = Len(calc.members)
        /\ \A i \in 1..Len(calc.out) :
               /\ calc.out[i].name = MemberOf(i).name
               /\ ~Decodable(MemberOf(i)) => calc.out[i].value = None

\* the part of C38 that holds: the members whose type reference is known are
\* decoded one node each, in declaration order, without a value when their
\* bytes are missing
KnownMembersKept ==
    (calc.fn = "parse_struct_variable" /\ calc.done) =>
        LET known == SelectSeq(calc.members, LAMBDA m : m.type_ref # None)
        IN  /\ Len(calc.out) = Len(known)
            /\ \A i \in 1..Len(known) :
                   /\ calc.out[i].name = known[i].name
                   /\ calc.out[i].type_name = TypeGraph[unwrap(known[i].type_ref)].name
                   /\ (calc.out[i].value = None) <=> ~Decodable(known[i])

\* the lower bound and the length of the array of calc
Lo == unwrap(calc.bounds)[1]
ArrayLen == unwrap(calc.bounds)[2] - unwrap(calc.bounds)[1]

\* the items of the decoded array are ArrayLen nodes named Lo, Lo + 1, ... in order
ItemsInOrder ==
    calc.out.items # None =>
        /\ Len(unwrap(calc.out.items)) = ArrayLen
        /\ \A i \in 1..ArrayLen : unwrap(calc.out.items)[i].name = Lo + (i - 1)

\* C39: decoding an array with bounds lo <= hi never panics, an empty array
\* and an array of a zero-sized type included, and the items it yields are
\* hi - lo nodes named lo, lo + 1, ..., hi - 1 in order
C39_ParseArrayTotal ==
    (calc.fn = "parse_array" /\ calc.done /\ calc.bounds # None) =>
        (~calc.out.panic /\ ItemsInOrder)

\* the part of C39 that holds: an array that is not empty is decoded without
\* a panic, an array of a zero-sized type included, into items named in order,
\* and they are materialized when the size, the bytes and the element type are known
NonEmptyArrayDecoded ==
    (calc.fn = "parse_array" /\ calc.done /\ calc.bounds # None /\ ArrayLen > 0) =>
        /\ ~calc.out.panic /\ ItemsInOrder
        /\ (calc.out.items # None) <=>
               (calc.size # None /\ calc.value # None /\ calc.element_type # None)

\* the bounds of the slice of calc, and the size of the pointer's target
SliceLo == IF calc.left = None THEN 0 ELSE unwrap(calc.left)
SliceHi == calc.right
TargetSize == type_size_in_bytes(calc.p.size_known, unwrap(calc.p.target_type))

\* the slice read TargetSize * (hi - lo) bytes at pointer + TargetSize * lo and,
\* the read having succeeded, returned hi - lo items named 0 .. hi - lo - 1
ExactSlice ==
    /\ calc.out.read = Some(<<unwrap(calc.p.value) + unwrap(TargetSize) * SliceLo,
                              unwrap(TargetSize) * (SliceHi - SliceLo)>>)
    /\ calc.top # 0 =>
           /\ calc.out.items # None
           /\ Len(unwrap(calc.out.items)) = SliceHi - SliceLo
           /\ \A i \in 1..(SliceHi - SliceLo) : unwrap(calc.out.items)[i].name = i - 1

\* C40: slicing a pointer never panics; for lo <= hi it reads
\* size * (hi - lo) bytes at pointer + size * lo and yields hi - lo items named
\* 0 .. hi - lo - 1; for hi < lo, for an unknown target type or size and for a
\* zero-sized target it yields no value and reads nothing
C40_SliceTotal ==
    (calc.fn = "slice" /\ calc.done) =>
        /\ ~calc.out.panic
        /\ IF calc.p.target_type = None \/ TargetSize = None
              \/ unwrap(TargetSize) = 0 \/ SliceHi < SliceLo
           THEN calc.out.items = None /\ calc.out.read = None
           ELSE calc.p.value # None => ExactSlice

\* the part of C40 that holds: with lo <= hi and a target of known size that
\* is not zero the slice does not panic, reads exactly the bytes of the items
\* and yields them; with an unknown target type or size it yields no value
SliceOfSizedTarget ==
    (calc.fn = "slice" /\ calc.done) =>
        IF calc.p.target_type = None \/ TargetSize = None
        THEN ~calc.out.panic /\ calc.out.items = None /\ calc.out.read = None
        ELSE (unwrap(TargetSize) # 0 /\ SliceLo <= SliceHi /\ calc.p.value # None) =>
                 (~calc.out.panic /\ ExactSlice)

\* a slice with hi < lo, or of a pointer to a zero-sized target read with
\* success, panics in every build
BadSlicePanics ==
    (calc.fn = "slice" /\ calc.done /\ calc.p.target_type # None /\ calc.p.value # None) =>
        ((TargetSize # None /\ (SliceHi < SliceLo \/ unwrap(TargetSize) = 0)) =>
             calc.out.panic)

====
